---- MODULE Spec2Model ----
(***************************************************************************)
(* A model of the ray tracer's shading core: World::color_at and the       *)
(* functions it calls (src/bin/ch11/world.rs), hit / intersections /       *)
(* schlick (src/bin/ch12/ray.rs) and the camera's render loop              *)
(* (src/bin/ch13/camera.rs).                                               *)
(*                                                                         *)
(* Numbers.  Every f64 of the program is a fixed-point integer with five   *)
(* decimals (ONE = 1.0), so that EPSILON = 0.00003 is the integer 3.       *)
(* Products and quotients are computed exactly and floored (MulFix,        *)
(* DivFix); a NaN is carried as an explicit flag.                          *)
(*                                                                         *)
(* Geometry.  The scenes are worlds of parallel planes (shape/plane.rs)    *)
(* translated along their common normal, the y axis.  A point is its y     *)
(* coordinate; a direction is the y component of a unit vector, so that    *)
(* |direction| is the cosine between the ray and the axis.  The lateral    *)
(* coordinates are not carried: Intersection.t is kept in units of travel  *)
(* along the axis (t * |direction.y|), which has the sign, the order and   *)
(* the equalities of t on one ray, and lights lie on the axis through the  *)
(* shaded point.                                                           *)
(***************************************************************************)
EXTENDS Integers, Sequences, FiniteSets, TLC

\* ------------------------------------------------------------------ bounds
MaxRemaining == 2
MaxObjects == 2
MaxLights == 2
MaxSize == 2
MaxLen == 3
MaxT == 2
MaxRows == 6
MaxPair == 4
MaxChain == 3
MaxCoord == 1
MaxWrites == 2

\* --------------------------------------------------------------------- state
VARIABLES
  world,      \* World { objects, lights }
  camera,     \* Camera
  depth,      \* reflection_count handed to render
  impl,       \* which binary_search loop the build links
  image,      \* the Canvas render fills
  written,    \* how often each cell of the canvas has been written
  px, py,     \* the loop variables x and y of render
  rpc,        \* where render is: "loop", "wait", "done"
  stack,      \* the call stack under render, innermost call last
  ret,        \* the value the last return handed back
  last,       \* the last call of reflected_color / refracted_color that returned
  shade,      \* what shade_hit last added to res for one light
  pass,       \* which of the two renders of the same scene is running
  first,      \* the canvas of the first render
  unit,       \* a direct call of hit or prepare_computations, as the tests make
  calls       \* how many times color_at was entered for the current pixel

vars == <<world, camera, depth, impl, image, written, px, py, rpc, stack, ret,
          last, shade, pass, first, unit, calls>>

\* ------------------------------------------------------------- arithmetic
ONE == 100000
EPSILON == 3
BLACK == 0
WHITE == ONE

Abs(x) == IF x < 0 THEN -x ELSE x

\* floor(a * b / ONE) for a, b >= 0, without leaving 32 bits
MulFixPos(a, b) ==
  LET ah == a \div 1000
      al == a % 1000
      hb == ah * b
  IN  (hb \div 100) + (((hb % 100) * 1000 + al * b) \div ONE)

MulFix(a, b) ==
  IF (a < 0) = (b < 0) THEN MulFixPos(Abs(a), Abs(b))
  ELSE -MulFixPos(Abs(a), Abs(b))

\* floor(a * ONE / b) for a >= 0, b > 0
DivFix(a, b) ==
  LET q  == a \div b
      r1 == (a % b) * 1000
      r2 == (r1 % b) * 100
  IN  q * ONE + (r1 \div b) * 100 + (r2 \div b)

RECURSIVE SqrtSearch(_, _, _)
SqrtSearch(x, lo, hi) ==
  IF lo >= hi THEN lo
  ELSE LET mid == (lo + hi + 1) \div 2
       IN  IF MulFixPos(mid, mid) <= x THEN SqrtSearch(x, mid, hi)
           ELSE SqrtSearch(x, lo, mid - 1)

\* f64::sqrt on [0, 4]: the largest k with k*k <= x
SqrtFix(x) == SqrtSearch(x, 0, 2 * ONE)

RECURSIVE PowFix(_, _)
PowFix(b, e) ==
  IF e = 0 THEN ONE
  ELSE LET h == PowFix(b, e \div 2)
           s == MulFix(h, h)
       IN  IF e % 2 = 1 THEN MulFix(s, b) ELSE s

\* --------------------------------------------------------------- materials
Material(color, ambient, diffuse, reflective, transparency, refractive_index) ==
  [color |-> color, ambient |-> ambient, diffuse |-> diffuse,
   specular |-> (9 * ONE) \div 10, shininess |-> 200,
   reflective |-> reflective, transparency |-> transparency,
   refractive_index |-> refractive_index]

\* a plane with its id, its instance (the Rc it lives in), its translation
Plane(key, id, pos, material) ==
  [key |-> key, id |-> id, pos |-> pos, material |-> material]

PointLight(position, intensity) ==
  [position |-> position, intensity |-> intensity]

Ray(origin, direction) == [origin |-> origin, direction |-> direction, nan |-> FALSE]
NanRay(origin) == [origin |-> origin, direction |-> 0, nan |-> TRUE]

Intersection(t, object) == [t |-> t, nan |-> FALSE, object |-> object]
NanIntersection(object) == [t |-> 0, nan |-> TRUE, object |-> object]

Sign(x) == IF x < 0 THEN -1 ELSE 1

\* ------------------------------------------------------ ray / intersection
\* Plane::local_intersect on the ray moved into the plane's object space
PlaneLocalIntersect(shape, r) ==
  IF r.nan THEN <<NanIntersection(shape)>>
  ELSE IF Abs(r.direction) < 1 THEN <<>>
  ELSE <<Intersection((shape.pos - r.origin) * Sign(r.direction), shape)>>

\* partial_cmp(..).unwrap_or(Equal) == Greater
TGreater(i1, i2) == ~i1.nan /\ ~i2.nan /\ i1.t > i2.t

RECURSIVE InsertSorted(_, _)
InsertSorted(sorted, i) ==
  IF sorted = <<>> THEN <<i>>
  ELSE IF TGreater(sorted[Len(sorted)], i)
       THEN Append(InsertSorted(SubSeq(sorted, 1, Len(sorted) - 1), i),
                   sorted[Len(sorted)])
       ELSE Append(sorted, i)

RECURSIVE SortFrom(_, _, _)
SortFrom(vec, k, acc) ==
  IF k > Len(vec) THEN acc ELSE SortFrom(vec, k + 1, InsertSorted(acc, vec[k]))

\* intersections(vec) returning the vector as it came
Unsorted(vec) == vec

\* intersections(vec): a stable sort by t
intersections(vec) == SortFrom(vec, 1, <<>>)

\* a cylinder around the y axis with its instance, its translation along
\* the axis and its truncation
Cylinder(key, id, pos, material, minimum, maximum, closed) ==
  [key |-> key, id |-> id, pos |-> pos, material |-> material,
   minimum |-> minimum, maximum |-> maximum, closed |-> closed]

IsCylinder(shape) == "closed" \in DOMAIN shape

\* Ray::transform by the inverse of the shape's transform, a translation
LocalRay(r, shape) == [r EXCEPT !.origin = r.origin - shape.pos]

\* Cylinder::intersect_caps for a ray on the axis, where check_cap holds for
\* every finite t and fails for NaN: the lower cap first, then the upper
\* one; direction.y is 1 or -1 there, so the division is a change of sign
intersect_caps(shape, r) ==
  IF ~shape.closed \/ Abs(r.direction) <= EPSILON THEN <<>>
  ELSE IF r.nan THEN <<>>
  ELSE <<(shape.minimum - r.origin) * Sign(r.direction),
         (shape.maximum - r.origin) * Sign(r.direction)>>

\* Cylinder::local_intersect for a ray on the axis: a = 0, the caps only;
\* with NaN coordinates every test of the walls and of the caps fails
CylinderLocalIntersect(shape, r) ==
  IF r.nan THEN <<>> ELSE intersect_caps(shape, r)

\* the loop of Ray::intersect: one Intersection per root, on the shape
Wrap(ts, shape) == [k \in 1 .. Len(ts) |-> Intersection(ts[k], shape)]

RayIntersect(r, shape) ==
  intersections(IF IsCylinder(shape)
                THEN Wrap(CylinderLocalIntersect(shape, LocalRay(r, shape)), shape)
                ELSE PlaneLocalIntersect(shape, r))

RECURSIVE FlattenMap(_, _, _)
FlattenMap(objects, r, k) ==
  IF k > Len(objects) THEN <<>>
  ELSE RayIntersect(r, objects[k]) \o FlattenMap(objects, r, k + 1)

Reverse(seq) == [k \in 1 .. Len(seq) |-> seq[Len(seq) + 1 - k]]

\* World::intersect over a collection whose iteration order is not fixed
WorldIntersectUnordered(w, r) ==
  intersections(FlattenMap(IF pass = 1 THEN w.objects ELSE Reverse(w.objects), r, 1))

WorldIntersect(w, r) == intersections(FlattenMap(w.objects, r, 1))

\* World::intersect draining the objects instead of iterating over them
AfterIntersectDrained(w) == [w EXCEPT !.objects = <<>>]

\* the world after World::intersect(&self, ..): objects.iter() leaves it as it was
AfterIntersect(w) == w

\* the filter of hit: approx_eq!(t, 0.0) || t > 0.0
HitFilterStrict(i) == ~i.nan /\ i.t > 0
HitFilter(i) == ~i.nan /\ (i.t = 0 \/ i.t > 0)

RECURSIVE MinBy(_, _, _)
MinBy(xs, k, best) ==
  IF k > Len(xs) THEN best
  ELSE IF ~HitFilter(xs[k]) THEN MinBy(xs, k + 1, best)
  ELSE IF best = 0 \/ TGreater(xs[best], xs[k]) THEN MinBy(xs, k + 1, k)
  ELSE MinBy(xs, k + 1, best)

\* hit(xs): the index in xs of the hit, 0 for None
hit(xs) == MinBy(xs, 1, 0)

\* ----------------------------------------------------------- binary search
\* <[T]>::binary_search by shape id; 0 stands for Err.  The two loops are the
\* ones the standard library has shipped; they agree on sorted slices only.
RECURSIVE SearchClassic(_, _, _, _)
SearchClassic(c, id, left, right) ==
  IF left >= right THEN 0
  ELSE LET mid == left + (right - left) \div 2
       IN  IF c[mid + 1].id < id THEN SearchClassic(c, id, mid + 1, right)
           ELSE IF c[mid + 1].id > id THEN SearchClassic(c, id, left, mid)
           ELSE mid + 1

RECURSIVE SearchHalving(_, _, _, _)
SearchHalving(c, id, base, size) ==
  IF size > 1
  THEN LET half == size \div 2
           mid  == base + half
       IN  SearchHalving(c, id, IF c[mid + 1].id > id THEN base ELSE mid,
                         size - half)
  ELSE IF c[base + 1].id = id THEN base + 1 ELSE 0

binary_search(c, object, variant) ==
  IF Len(c) = 0 THEN 0
  ELSE IF variant = "classic" THEN SearchClassic(c, object.id, 0, Len(c))
  ELSE SearchHalving(c, object.id, 0, Len(c))

Remove(c, n) == SubSeq(c, 1, n - 1) \o SubSeq(c, n + 1, Len(c))

\* ---------------------------------------------------- prepare_computations
LastIndex(containers) ==
  IF containers = <<>> THEN ONE
  ELSE containers[Len(containers)].material.refractive_index

Toggle(containers, object, variant) ==
  LET n == binary_search(containers, object, variant)
  IN  IF n # 0 THEN Remove(containers, n) ELSE Append(containers, object)

\* Intersection::eq compares t only
IntersectionEq(i, h) == ~i.nan /\ ~h.nan /\ i.t = h.t

\* the loop over xs: [n1, n2, containers] when it ends or breaks
RECURSIVE Containment(_, _, _, _, _, _)
Containment(xs, h, k, containers, n1, variant) ==
  IF k > Len(xs) THEN [n1 |-> n1, n2 |-> ONE, containers |-> containers]
  ELSE LET i    == xs[k]
           n1b  == IF IntersectionEq(i, h) THEN LastIndex(containers) ELSE n1
           next == Toggle(containers, i.object, variant)
       IN  IF IntersectionEq(i, h)
           THEN [n1 |-> n1b, n2 |-> LastIndex(next), containers |-> next]
           ELSE Containment(xs, h, k + 1, next, n1b, variant)

\* prepare_computations keeping the shape's normal whatever the eye's side
PrepareUnflipped(h, r, xs, variant) ==
  LET t       == h.t
      point   == r.origin + Sign(r.direction) * t
      eyev    == -r.direction
      normalv == ONE
      c       == Containment(xs, h, 1, <<>>, ONE, variant)
  IN  [t |-> t, object |-> h.object, point |-> point, eyev |-> eyev,
       normalv |-> normalv,
       reflectv |-> r.direction - MulFix(normalv, 2 * MulFix(r.direction, normalv)),
       inside |-> FALSE,
       over_point |-> point + MulFix(normalv, EPSILON),
       under_point |-> point - MulFix(normalv, EPSILON),
       n1 |-> c.n1, n2 |-> c.n2]

prepare_computations(h, r, xs, variant) ==
  LET t       == h.t
      point   == r.origin + Sign(r.direction) * t
      eyev    == -r.direction
      normal  == ONE
      reflectv == r.direction - MulFix(normal, 2 * MulFix(r.direction, normal))
      inside  == MulFix(normal, eyev) < 0
      normalv == IF inside THEN -normal ELSE normal
      c       == Containment(xs, h, 1, <<>>, ONE, variant)
  IN  [t |-> t, object |-> h.object, point |-> point, eyev |-> eyev,
       normalv |-> normalv, reflectv |-> reflectv, inside |-> inside,
       over_point |-> point + MulFix(normalv, EPSILON),
       under_point |-> point - MulFix(normalv, EPSILON),
       n1 |-> c.n1, n2 |-> c.n2]

\* ------------------------------------------------------------------- shading
\* Vector::normalize of an axial vector
Normalize(v) == Sign(v) * ONE

\* reflect(in, normal) = in - normal * 2 * dot(in, normal)
reflect(in, normal) == in - MulFix(normal, 2 * MulFix(in, normal))

\* lighting taking every point for lit
LightingUnshadowed(material, light, point, eyev, normalv, in_shadow) ==
  LET effective_color  == MulFix(material.color, light.intensity)
      lightv           == Normalize(light.position - point)
      ambient          == MulFix(effective_color, material.ambient)
      light_dot_normal == MulFix(lightv, normalv)
      reflect_dot_eye  == MulFix(reflect(-lightv, normalv), eyev)
      diffuse          == MulFix(MulFix(effective_color, material.diffuse),
                                 light_dot_normal)
      specular         == MulFix(MulFix(light.intensity, material.specular),
                                 PowFix(reflect_dot_eye, material.shininess))
  IN  IF light_dot_normal < 0 THEN ambient
      ELSE IF reflect_dot_eye <= 0 THEN ambient + diffuse
      ELSE ambient + diffuse + specular

lighting(material, light, point, eyev, normalv, in_shadow) ==
  LET color            == material.color
      effective_color  == MulFix(color, light.intensity)
      lightv           == Normalize(light.position - point)
      ambient          == MulFix(effective_color, material.ambient)
      light_dot_normal == MulFix(lightv, normalv)
      reflectv         == reflect(-lightv, normalv)
      reflect_dot_eye  == MulFix(reflectv, eyev)
      diffuse          == MulFix(MulFix(effective_color, material.diffuse),
                                 light_dot_normal)
      specular         == MulFix(MulFix(light.intensity, material.specular),
                                 PowFix(reflect_dot_eye, material.shininess))
  IN  IF light_dot_normal < 0 \/ in_shadow THEN ambient
      ELSE IF reflect_dot_eye <= 0 THEN ambient + diffuse
      ELSE ambient + diffuse + specular

schlick(comps) ==
  LET cos    == MulFix(comps.eyev, comps.normalv)
      n      == DivFix(comps.n1, comps.n2)
      sin2_t == MulFix(MulFix(n, n), ONE - MulFix(cos, cos))
      tir    == comps.n1 > comps.n2 /\ sin2_t > ONE
      cos2   == IF comps.n1 > comps.n2 /\ ~tir THEN SqrtFix(ONE - sin2_t) ELSE cos
      d      == DivFix(Abs(comps.n1 - comps.n2), comps.n1 + comps.n2)
      r0     == MulFix(d, d)
  IN  IF tir THEN ONE
      ELSE r0 + MulFix(ONE - r0, PowFix(ONE - cos2, 5))

SelectAll(xs) == xs
SelectOpaque(xs) ==
  SelectSeq(xs, LAMBDA i : ~(i.object.material.transparency > 0))

is_shadowed(w, light, point) ==
  LET v         == light.position - point
      distance  == Abs(v)
      r         == IF v = 0 THEN NanRay(point) ELSE Ray(point, Normalize(v))
      xs        == SelectOpaque(WorldIntersect(w, r))
      h         == hit(xs)
  IN  h # 0 /\ xs[h].t < distance

\* the part of refracted_color between its two early returns and its call
Sin2T(comps) ==
  LET n_ratio == DivFix(comps.n1, comps.n2)
      cos_i   == MulFix(comps.eyev, comps.normalv)
  IN  MulFix(MulFix(n_ratio, n_ratio), ONE - MulFix(cos_i, cos_i))

\* the guard of the second early return of refracted_color
TotalReflection(sin2_t) == Abs(sin2_t - ONE) <= EPSILON

RefractRay(comps) ==
  LET n_ratio == DivFix(comps.n1, comps.n2)
      cos_i   == MulFix(comps.eyev, comps.normalv)
      sin2_t  == Sin2T(comps)
      cos_t   == SqrtFix(ONE - sin2_t)
  IN  IF ONE - sin2_t < 0 THEN NanRay(comps.under_point)
      ELSE Ray(comps.under_point,
               MulFix(comps.normalv, MulFix(n_ratio, cos_i) - cos_t)
                 - MulFix(comps.eyev, n_ratio))

\* the branch of shade_hit that blends by the Schlick reflectance
Blend(material) == material.reflective >= EPSILON /\ material.transparency >= EPSILON

\* shade_hit adding the direct lighting alone
CombineSurface(comps, surface, reflected, refracted) == surface

\* the value shade_hit adds to res for one light
Combine(comps, surface, reflected, refracted) ==
  IF Blend(comps.object.material)
  THEN LET reflectance == schlick(comps)
       IN  surface + MulFix(reflected, reflectance)
                   + MulFix(refracted, ONE - reflectance)
  ELSE surface + reflected + refracted

\* the test on remaining of reflected_color and refracted_color
ExhaustedLate(remaining) == remaining < 0
Exhausted(remaining) == remaining <= 0

\* remaining - 1 on a u32; -1 stands for the wrapped value
SubOneKeep(remaining) == remaining
SubOne(remaining) == IF remaining >= 1 THEN remaining - 1 ELSE -1

\* -------------------------------------------------------------------- camera
Camera(hsize, vsize, half_view, position, facing) ==
  LET aspect      == DivFix(hsize, vsize)
      half_width  == IF aspect >= ONE THEN half_view ELSE MulFix(half_view, aspect)
      half_height == IF aspect >= ONE THEN DivFix(half_view, aspect) ELSE half_view
  IN  [hsize |-> hsize, vsize |-> vsize, position |-> position, facing |-> facing,
       half_width |-> half_width, half_height |-> half_height,
       pixel_size |-> (half_width * 2) \div hsize]

ray_for_pixel(c, x, y) ==
  LET xoffset == MulFix(x * ONE + ONE \div 2, c.pixel_size)
      yoffset == MulFix(y * ONE + ONE \div 2, c.pixel_size)
      world_x == c.half_width - xoffset
      world_y == c.half_height - yoffset
      norm    == SqrtFix(MulFix(world_x, world_x) + MulFix(world_y, world_y) + ONE)
  IN  Ray(c.position, c.facing * DivFix(ONE, norm))

\* -------------------------------------------------------------------- canvas
CanvasNew(width, height) ==
  [width |-> width, height |-> height,
   pixels |-> [k \in 0 .. (width * height - 1) |-> BLACK]]

\* Canvas::write addressing the row only
CanvasWriteRow(cv, x, y, color) ==
  [cv EXCEPT !.pixels[cv.width * y] = color]

CanvasWrite(cv, x, y, color) ==
  [cv EXCEPT !.pixels[(cv.width * y) + x] = color]

pixel_at(cv, x, y) == cv.pixels[(cv.width * y) + x]

\* ---------------------------------------------------------------- the scenes
Matte    == Material(WHITE, ONE \div 10, (9 * ONE) \div 10, 0, 0, ONE)
Mirror   == Material((8 * ONE) \div 10, ONE \div 10, (9 * ONE) \div 10, ONE, 0, ONE)
Glass    == Material((6 * ONE) \div 10, ONE \div 10, (9 * ONE) \div 10, 0, ONE, 2 * ONE)
Glazed   == Material((4 * ONE) \div 10, ONE \div 10, (9 * ONE) \div 10, ONE \div 2, ONE \div 2,
                     (3 * ONE) \div 2)
Faint    == Material((2 * ONE) \div 10, ONE \div 10, (9 * ONE) \div 10, 1, ONE \div 2, ONE)
Palette  == {Matte, Mirror, Glass, Glazed, Faint}

\* where the k-th plane of a scene may lie: around the camera, in front of
\* it, or on the plane before it
SlotPositions(k) ==
  IF k = 1 THEN {-ONE, ONE} ELSE IF k = 2 THEN {ONE, 2 * ONE} ELSE {k * ONE}

LightAt(k) == PointLight(IF k = 1 THEN 0 ELSE IF k = 2 THEN 3 * ONE ELSE -k * ONE, WHITE)

\* the ids of the planes of a scene, in the order they are pushed: ascending
\* or descending
IdOrders(n) == {[k \in 1 .. n |-> k - 1], [k \in 1 .. n |-> n - k]}

Layouts(n) ==
  {f \in [1 .. n -> {-ONE} \cup {k * ONE : k \in 1 .. n}] :
     \A k \in 1 .. n : f[k] \in SlotPositions(k)}

World(n, l, ids, pos, mats) ==
  [objects |-> [k \in 1 .. n |-> Plane(k, ids[k], pos[k], mats[k])],
   lights  |-> [k \in 1 .. l |-> LightAt(k)]]

NoRay == Ray(0, 0)
NoComps ==
  [t |-> 0, object |-> Plane(0, 0, 0, Matte), point |-> 0, eyev |-> 0,
   normalv |-> 0, reflectv |-> 0, inside |-> FALSE, over_point |-> 0,
   under_point |-> 0, n1 |-> 0, n2 |-> 0]

\* one activation of a function of impl World
Frame(fn, pc, ray, remaining, comps) ==
  [fn |-> fn, pc |-> pc, ray |-> ray, remaining |-> remaining, comps |-> comps,
   li |-> 1, res |-> BLACK, shadowed |-> FALSE, surface |-> BLACK,
   reflected |-> BLACK]

\* the record of a call that has returned
Returned(f, value, traced) ==
  [fn |-> f.fn, remaining |-> f.remaining, comps |-> f.comps, value |-> value,
   traced |-> traced]

NoCall == Returned(Frame("none", "none", NoRay, 0, NoComps), BLACK, FALSE)

NoShade ==
  [fn |-> "none", comps |-> NoComps, light |-> LightAt(1), shadowed |-> FALSE,
   surface |-> BLACK, reflected |-> BLACK, refracted |-> BLACK, added |-> BLACK]

NoUnit == [fn |-> "none", pc |-> "none", xs |-> <<>>, h |-> 0, result |-> NoComps]

Top == stack[Len(stack)]
Pop == SubSeq(stack, 1, Len(stack) - 1)
Push(f) == Append(stack, f)
SetTop(f) == [stack EXCEPT ![Len(stack)] = f]

Init ==
  /\ \E n \in 0 .. MaxObjects, l \in 0 .. MaxLights :
       \E ids \in IdOrders(n), pos \in Layouts(n), mats \in [1 .. n -> Palette] :
         world = World(n, l, ids, pos, mats)
  /\ \E hsize \in 1 .. MaxSize : camera = Camera(hsize, MaxSize + 1, ONE, 0, 1)
  /\ depth \in 0 .. MaxRemaining
  /\ impl \in {"classic", "halving"}
  /\ image = CanvasNew(camera.hsize, camera.vsize)
  /\ written = [k \in DOMAIN image.pixels |-> 0]
  /\ px = 0
  /\ py = 0
  /\ rpc = "loop"
  /\ stack = <<>>
  /\ ret = BLACK
  /\ last = NoCall
  /\ shade = NoShade
  /\ pass = 1
  /\ first = image
  /\ unit = NoUnit
  /\ calls = 0

\* ------------------------------------------------------------------- render
\* the ends of the two ranges render iterates
YEnd(c) == c.vsize - 1
XEnd(c) == c.hsize - 1

\* render: the body of the inner loop up to the call of color_at
RenderPixel ==
  /\ rpc = "loop" /\ py < YEnd(camera) /\ px < XEnd(camera)
  /\ stack' = <<Frame("color_at", "start", ray_for_pixel(camera, px, py), depth, NoComps)>>
  /\ rpc' = "wait"
  /\ UNCHANGED <<world, camera, depth, impl, image, written, px, py, ret, last,
                 pass, first, unit, shade>>
  /\ calls' = 0

\* render: image.write(x, y, color) and the step of the inner loop
RenderWrite ==
  /\ rpc = "wait" /\ stack = <<>>
  /\ image' = CanvasWrite(image, px, py, ret)
  /\ written' = [written EXCEPT ![(image.width * py) + px] = @ + 1]
  /\ px' = px + 1
  /\ rpc' = "loop"
  /\ UNCHANGED <<world, camera, depth, impl, py, stack, ret, last, pass, first,
                 unit, shade, calls>>

\* render: the inner range is exhausted, the outer loop steps
RenderNextRow ==
  /\ rpc = "loop" /\ py < YEnd(camera) /\ px >= XEnd(camera)
  /\ py' = py + 1
  /\ px' = 0
  /\ UNCHANGED <<world, camera, depth, impl, image, written, rpc, stack, ret,
                 last, pass, first, unit, shade, calls>>

\* render: the outer range is exhausted, the image is returned
RenderReturn ==
  /\ rpc = "loop" /\ py >= YEnd(camera)
  /\ rpc' = "done"
  /\ UNCHANGED <<world, camera, depth, impl, image, written, px, py, stack,
                 ret, last, pass, first, unit, shade, calls>>

\* ----------------------------------------------------------------- color_at
\* color_at up to its call of shade_hit, or to its return of black
ColorAt ==
  /\ stack # <<>> /\ Top.fn = "color_at" /\ Top.pc = "start"
  /\ LET xs == WorldIntersect(world, Top.ray)
         h  == hit(xs)
     IN  IF h # 0
         THEN LET comps == prepare_computations(xs[h], Top.ray, xs, impl)
              IN  stack' = Append(SetTop([Top EXCEPT !.pc = "shade"]),
                                  Frame("shade_hit", "light", Top.ray,
                                        Top.remaining, comps))
                  /\ ret' = ret
         ELSE stack' = Pop /\ ret' = BLACK
  /\ UNCHANGED <<camera, depth, impl, image, written, px, py, rpc, last,
                 pass, first, unit, shade>>
  /\ calls' = calls + 1
  /\ world' = AfterIntersect(world)

\* color_at returns what shade_hit returned
ColorAtReturn ==
  /\ stack # <<>> /\ Top.fn = "color_at" /\ Top.pc = "shade"
  /\ stack' = Pop
  /\ UNCHANGED <<world, camera, depth, impl, image, written, px, py, rpc, ret,
                 last, pass, first, unit, shade, calls>>

\* ---------------------------------------------------------------- shade_hit
\* shade_hit: the head of the loop over the lights up to reflected_color
ShadeHitLight ==
  /\ stack # <<>> /\ Top.fn = "shade_hit" /\ Top.pc = "light"
  /\ Top.li <= Len(world.lights)
  /\ LET light    == world.lights[Top.li]
         comps    == Top.comps
         shadowed == is_shadowed(world, light, comps.over_point)
         surface  == lighting(comps.object.material, light, comps.over_point,
                              comps.eyev, comps.normalv, shadowed)
     IN  stack' = Append(SetTop([Top EXCEPT !.pc = "reflected", !.shadowed = shadowed,
                                          !.surface = surface]),
                         Frame("reflected_color", "start", Top.ray, Top.remaining, comps))
  /\ UNCHANGED <<world, camera, depth, impl, image, written, px, py, rpc, ret,
                 last, pass, first, unit, shade, calls>>

\* shade_hit: reflected_color has returned, refracted_color is called
ShadeHitReflected ==
  /\ stack # <<>> /\ Top.fn = "shade_hit" /\ Top.pc = "reflected"
  /\ stack' = Append(SetTop([Top EXCEPT !.pc = "refracted", !.reflected = ret]),
                     Frame("refracted_color", "start", Top.ray, Top.remaining, Top.comps))
  /\ UNCHANGED <<world, camera, depth, impl, image, written, px, py, rpc, ret,
                 last, pass, first, unit, shade, calls>>

\* shade_hit: refracted_color has returned, the light's share is added to res
ShadeHitRefracted ==
  /\ stack # <<>> /\ Top.fn = "shade_hit" /\ Top.pc = "refracted"
  /\ LET added == Combine(Top.comps, Top.surface, Top.reflected, ret)
     IN  /\ stack' = SetTop([Top EXCEPT !.pc = "light", !.li = @ + 1,
                                        !.res = @ + added])
         /\ shade' = [fn |-> Top.fn, comps |-> Top.comps,
                      light |-> world.lights[Top.li], shadowed |-> Top.shadowed,
                      surface |-> Top.surface, reflected |-> Top.reflected,
                      refracted |-> ret, added |-> added]
  /\ UNCHANGED <<world, camera, depth, impl, image, written, px, py, rpc, ret,
                 last, pass, first, unit, calls>>

\* shade_hit: the lights are exhausted, res is returned
ShadeHitReturn ==
  /\ stack # <<>> /\ Top.fn = "shade_hit" /\ Top.pc = "light"
  /\ Top.li > Len(world.lights)
  /\ stack' = Pop
  /\ ret' = Top.res
  /\ UNCHANGED <<world, camera, depth, impl, image, written, px, py, rpc, last,
                 pass, first, unit, shade, calls>>

\* ---------------------------------------------------------- reflected_color
ReflectedColor ==
  /\ stack # <<>> /\ Top.fn = "reflected_color" /\ Top.pc = "start"
  /\ IF Top.comps.object.material.reflective = 0 \/ Exhausted(Top.remaining)
     THEN /\ stack' = Pop
          /\ ret' = BLACK
          /\ last' = Returned(Top, BLACK, FALSE)
     ELSE /\ stack' = Append(SetTop([Top EXCEPT !.pc = "traced"]),
                             Frame("color_at", "start",
                                   Ray(Top.comps.over_point, Top.comps.reflectv),
                                   SubOne(Top.remaining), NoComps))
          /\ UNCHANGED <<ret, last>>
  /\ UNCHANGED <<world, camera, depth, impl, image, written, px, py, rpc, pass,
                 first, unit, shade, calls>>

\* reflected_color: color * reflective
ReflectedColorReturn ==
  /\ stack # <<>> /\ Top.fn = "reflected_color" /\ Top.pc = "traced"
  /\ stack' = Pop
  /\ ret' = MulFix(ret, Top.comps.object.material.reflective)
  /\ last' = Returned(Top, ret', TRUE)
  /\ UNCHANGED <<world, camera, depth, impl, image, written, px, py, rpc, pass,
                 first, unit, shade, calls>>

\* ---------------------------------------------------------- refracted_color
RefractedColor ==
  /\ stack # <<>> /\ Top.fn = "refracted_color" /\ Top.pc = "start"
  /\ IF \/ Top.comps.object.material.transparency = 0 \/ Exhausted(Top.remaining)
        \/ TotalReflection(Sin2T(Top.comps))
     THEN /\ stack' = Pop
          /\ ret' = BLACK
          /\ last' = Returned(Top, BLACK, FALSE)
     ELSE /\ stack' = Append(SetTop([Top EXCEPT !.pc = "traced"]),
                             Frame("color_at", "start", RefractRay(Top.comps),
                                   SubOne(Top.remaining), NoComps))
          /\ UNCHANGED <<ret, last>>
  /\ UNCHANGED <<world, camera, depth, impl, image, written, px, py, rpc, pass,
                 first, unit, shade, calls>>

\* refracted_color: color * transparency
RefractedColorReturn ==
  /\ stack # <<>> /\ Top.fn = "refracted_color" /\ Top.pc = "traced"
  /\ stack' = Pop
  /\ ret' = MulFix(ret, Top.comps.object.material.transparency)
  /\ last' = Returned(Top, ret', TRUE)
  /\ UNCHANGED <<world, camera, depth, impl, image, written, px, py, rpc, pass,
                 first, unit, shade, calls>>

Next ==
  \/ RenderPixel \/ RenderWrite \/ RenderNextRow \/ RenderReturn
  \/ ColorAt \/ ColorAtReturn
  \/ ShadeHitLight \/ ShadeHitReflected \/ ShadeHitRefracted \/ ShadeHitReturn
  \/ ReflectedColor \/ ReflectedColorReturn
  \/ RefractedColor \/ RefractedColorReturn

Spec == Init /\ [][Next]_vars

\* ------------------------------------------------- the same scene, rendered twice
\* render is called again on an equal camera, world and reflection_count
RenderAgain ==
  /\ rpc = "done" /\ pass = 1
  /\ first' = image
  /\ pass' = 2
  /\ image' = CanvasNew(camera.hsize, camera.vsize)
  /\ written' = [k \in DOMAIN image.pixels |-> 0]
  /\ px' = 0
  /\ py' = 0
  /\ rpc' = "loop"
  /\ UNCHANGED <<world, camera, depth, impl, stack, ret, last, shade, unit,
                 calls>>

NextTwice == Next \/ RenderAgain

SpecTwice == Init /\ [][NextTwice]_vars

\* ------------------------------------ the same scene with its objects permuted
\* the objects of w pushed in the order p
Permuted(w, p) == [w EXCEPT !.objects = [k \in DOMAIN w.objects |-> w.objects[p[k]]]]

\* render is called again on a world that holds the same shapes in another order
RenderPermuted ==
  /\ rpc = "done" /\ pass = 1
  /\ \E p \in Permutations(DOMAIN world.objects) : world' = Permuted(world, p)
  /\ first' = image
  /\ pass' = 2
  /\ image' = CanvasNew(camera.hsize, camera.vsize)
  /\ written' = [k \in DOMAIN image.pixels |-> 0]
  /\ px' = 0
  /\ py' = 0
  /\ rpc' = "loop"
  /\ UNCHANGED <<camera, depth, impl, stack, ret, last, shade, unit, calls>>

NextPermuted == Next \/ RenderPermuted

SpecPermuted == Init /\ [][NextPermuted]_vars

\* ------------------------------------------------------- direct calls of hit
\* the state of the model when no render is running
Idle ==
  /\ world = World(0, 0, <<>>, <<>>, <<>>)
  /\ camera = Camera(1, 1, ONE, 0, 1)
  /\ depth = 0
  /\ image = CanvasNew(1, 1)
  /\ written = [k \in DOMAIN image.pixels |-> 0]
  /\ px = 0
  /\ py = 0
  /\ rpc = "idle"
  /\ stack = <<>>
  /\ ret = BLACK
  /\ last = NoCall
  /\ shade = NoShade
  /\ pass = 1
  /\ first = image
  /\ calls = 0

\* the k-th shape of a hand-made list of intersections; its refractive index
\* tells it from the others
TestShape(k, id) ==
  Plane(k, id, 0, Material(WHITE, ONE \div 10, (9 * ONE) \div 10, 0, ONE,
                           ONE + k * (ONE \div 2)))

\* lists in any order of t, each intersection on a shape of its own
HitInputs ==
  UNION { { [k \in 1 .. n |-> Intersection(ts[k], TestShape(k, k - 1))] :
              ts \in [1 .. n -> (-MaxT) .. MaxT] } : n \in 0 .. MaxLen }

InitHit ==
  /\ Idle
  /\ impl = "classic"
  /\ \E xs \in HitInputs :
       unit = [fn |-> "hit", pc |-> "call", xs |-> xs, h |-> 0, result |-> NoComps]

HitCall ==
  /\ unit.fn = "hit" /\ unit.pc = "call"
  /\ unit' = [unit EXCEPT !.pc = "done", !.h = hit(unit.xs)]
  /\ UNCHANGED <<world, camera, depth, impl, image, written, px, py, rpc,
                 stack, ret, last, shade, pass, first, calls>>

NextHit == HitCall

SpecHit == InitHit /\ [][NextHit]_vars

\* ------------------------------------ direct calls of prepare_computations
NonDecreasing(n) ==
  {ts \in [1 .. n -> 1 .. n] : \A k \in 1 .. (n - 1) : ts[k] <= ts[k + 1]}

\* lists sorted by t over MaxObjects shapes with distinct ids
PrepInputs ==
  UNION { UNION { { [k \in 1 .. n |-> Intersection(ts[k], TestShape(ks[k], ids[ks[k]]))] :
                      ts \in NonDecreasing(n), ks \in [1 .. n -> 1 .. MaxObjects] }
                  : ids \in IdOrders(MaxObjects) } : n \in 1 .. (MaxLen + 1) }

InitPrep ==
  /\ Idle
  /\ impl \in {"classic", "halving"}
  /\ \E xs \in PrepInputs : \E h \in 1 .. Len(xs) :
       unit = [fn |-> "prepare_computations", pc |-> "call", xs |-> xs, h |-> h,
               result |-> NoComps]

PrepCall ==
  /\ unit.fn = "prepare_computations" /\ unit.pc = "call"
  /\ unit' = [unit EXCEPT !.pc = "done",
                          !.result = prepare_computations(unit.xs[unit.h], Ray(0, ONE),
                                                          unit.xs, impl)]
  /\ UNCHANGED <<world, camera, depth, impl, image, written, px, py, rpc,
                 stack, ret, last, shade, pass, first, calls>>

NextPrep == PrepCall

SpecPrep == InitPrep /\ [][NextPrep]_vars

\* ---------------------------------------------------------------- matrices
\* The entries of a matrix are f64 in the source.  The matrices below have
\* small integer entries, on which the f64 sums, products and quotients of
\* the code differ from the exact ones by far less than the tolerance of the
\* equality, so an entry is kept as an exact fraction n / d in lowest terms.
\* d = 0 stands for the non-finite values a division by zero yields:
\* n = 1 for +inf, n = -1 for -inf and n = 0 for NaN.
RECURSIVE GCD(_, _)
GCD(a, b) == IF b = 0 THEN a ELSE GCD(b, a % b)

Sgn(x) == IF x < 0 THEN -1 ELSE IF x > 0 THEN 1 ELSE 0

Rat(n, d) ==
  IF d = 0 THEN [n |-> Sgn(n), d |-> 0]
  ELSE LET g == GCD(Abs(n), Abs(d))
       IN  [n |-> Sgn(d) * (n \div g), d |-> Abs(d) \div g]

Num(k) == [n |-> k, d |-> 1]
NaN == [n |-> 0, d |-> 0]
Finite(a) == a.d # 0

\* a + b
RatAdd(a, b) ==
  IF Finite(a) /\ Finite(b) THEN Rat((a.n * b.d) + (b.n * a.d), a.d * b.d)
  ELSE IF Finite(a) THEN b
  ELSE IF Finite(b) THEN a
  ELSE IF a.n = b.n THEN a ELSE NaN

\* a * b
RatMul(a, b) ==
  IF Finite(a) /\ Finite(b) THEN Rat(a.n * b.n, a.d * b.d)
  ELSE [n |-> Sgn(a.n) * Sgn(b.n), d |-> 0]

RatNeg(a) == [n |-> -a.n, d |-> a.d]

\* a / b; a finite value divided by zero is infinite, 0 / 0 is NaN
RatDiv(a, b) ==
  IF Finite(a) /\ Finite(b) THEN Rat(a.n * b.d, a.d * b.n)
  ELSE IF Finite(a) THEN (IF b.n = 0 THEN NaN ELSE Num(0))
  ELSE IF Finite(b) THEN [n |-> a.n * (IF b.n < 0 THEN -1 ELSE 1), d |-> 0]
  ELSE NaN

\* a == b of f64: NaN differs from everything, itself included
RatEq(a, b) ==
  IF Finite(a) /\ Finite(b) THEN a = b
  ELSE a.d = 0 /\ b.d = 0 /\ a.n # 0 /\ a.n = b.n

\* approx_eq!(f64, a, b, epsilon = 0.00003)
ApproxEq(a, b) ==
  IF Finite(a) /\ Finite(b)
  THEN LET diff == Abs((a.n * b.d) - (b.n * a.d))
       IN  diff <= (EPSILON * a.d * b.d) \div ONE
  ELSE RatEq(a, b)

\* Matrix<N>: data[row][col], rows and columns counted from 0
Matrix(n, data) == [n |-> n, data |-> data]

Index(m, row, col) == m.data[row][col]

Dim(m) == 0 .. (m.n - 1)

IDENTITY(n) ==
  Matrix(n, [row \in 0 .. (n - 1) |->
               [col \in 0 .. (n - 1) |-> IF row = col THEN Num(1) ELSE Num(0)]])

transpose(m) ==
  Matrix(m.n, [row \in Dim(m) |-> [col \in Dim(m) |-> Index(m, col, row)]])

\* the row (column) of self that submatrix reads for row (column) i of the result
Skip(i, removed) == IF i >= removed THEN i + 1 ELSE i

submatrix(m, row, col) ==
  Matrix(m.n - 1,
         [i \in 0 .. (m.n - 2) |->
            [j \in 0 .. (m.n - 2) |-> Index(m, Skip(i, row), Skip(j, col))]])

\* Matrix<2>::determinant
Determinant2(m) ==
  RatAdd(RatMul(Index(m, 0, 0), Index(m, 1, 1)),
         RatNeg(RatMul(Index(m, 0, 1), Index(m, 1, 0))))

\* (-1.0).powi(row + col)
CofactorSign(row, col) == IF (row + col) % 2 = 0 THEN Num(1) ELSE Num(-1)

\* the loop `det += ...` adds the terms from column 0 on
RECURSIVE AddUp(_, _, _)
AddUp(f, k, acc) ==
  IF k \notin DOMAIN f THEN acc ELSE AddUp(f, k + 1, RatAdd(acc, f[k]))

\* the outcome of a call: its value, or a panic
Ok(v) == [panic |-> FALSE, val |-> v]
Panicked == [panic |-> TRUE, val |-> NaN]

RECURSIVE determinant(_)
\* Matrix<2>::minor reads self[2 - row][2 - col]; an index that is not below
\* the dimension panics.  Matrix<3>::minor and Matrix<4>::minor take the
\* determinant of the submatrix.
OutOfBounds(m, row, col) ==
  m.n = 2 /\ ((2 - row) \notin Dim(m) \/ (2 - col) \notin Dim(m))

minor(m, row, col) ==
  IF m.n = 2
  THEN IF OutOfBounds(m, row, col) THEN Panicked ELSE Ok(Index(m, 2 - row, 2 - col))
  ELSE Ok(determinant(submatrix(m, row, col)))

CofactorUnsigned(m, row, col) == minor(m, row, col)
cofactor(m, row, col) ==
  LET mi == minor(m, row, col)
  IN  [panic |-> mi.panic, val |-> RatMul(mi.val, CofactorSign(row, col))]

determinant(m) ==
  IF m.n = 2 THEN Determinant2(m)
  ELSE AddUp([column \in Dim(m) |->
                RatMul(Index(m, 0, column), cofactor(m, 0, column).val)],
             0, Num(0))

IsInvertibleAlways(m) == TRUE
is_invertible(m) == ~RatEq(determinant(m), Num(0))

\* inverse: panic!() on a matrix that is not invertible, else
\* m[col][row] = cofactor(row, col) / determinant for every row and col
inverse(m) ==
  IF ~is_invertible(m) THEN Panicked
  ELSE IF \E row, col \in Dim(m) : OutOfBounds(m, row, col) THEN Panicked
  ELSE LET det == determinant(m)
       IN  Ok(Matrix(m.n, [r \in Dim(m) |->
                             [c \in Dim(m) |-> RatDiv(cofactor(m, c, r).val, det)]]))

\* impl Mul for Matrix<N>
MatMul(a, b) ==
  Matrix(a.n, [row \in Dim(a) |->
                 [col \in Dim(a) |->
                    AddUp([i \in Dim(a) |-> RatMul(Index(a, row, i), Index(b, i, col))],
                          0, Num(0))]])

\* impl PartialEq for Matrix<N>
MatrixEq(a, b) ==
  \A row, col \in Dim(a) : ApproxEq(Index(a, row, col), Index(b, row, col))

\* ------------------------------------------------ direct calls of inverse
\* the rows the matrices of the checks are built from, cut to the dimension
RowPool ==
  << <<1, 2, 0, 1>>, <<0, 1, -1, 2>>, <<2, 0, 1, 0>>, <<0, 0, 0, 1>>,
     <<1, 1, 0, 0>>, <<0, -1, 2, 1>>, <<-1, 0, 0, 2>>, <<0, 0, 0, 0>> >>

PoolRow(k) == RowPool[((k - 1) % Len(RowPool)) + 1]

FromRows(n, rows) ==
  Matrix(n, [row \in 0 .. (n - 1) |->
               [col \in 0 .. (n - 1) |-> Num(PoolRow(rows[row + 1])[col + 1])]])

\* every matrix of dimension n whose rows are among the first k of the pool
Matrices(n, k) == {FromRows(n, rows) : rows \in [1 .. n -> 1 .. k]}

NoResult == [invertible |-> FALSE, inv |-> Panicked]

InitInverse ==
  /\ Idle
  /\ impl = "classic"
  /\ \E n \in 2 .. 4 : \E m \in Matrices(n, MaxRows) :
       unit = [fn |-> "inverse", pc |-> "call", xs |-> <<m>>, h |-> 0,
               result |-> NoResult]

\* is_invertible() and inverse() are called on the matrix
InverseCall ==
  /\ unit.fn = "inverse" /\ unit.pc = "call"
  /\ unit' = [unit EXCEPT !.pc = "done",
                          !.result = [invertible |-> is_invertible(unit.xs[1]),
                                      inv |-> inverse(unit.xs[1])]]
  /\ UNCHANGED <<world, camera, depth, impl, image, written, px, py, rpc,
                 stack, ret, last, shade, pass, first, calls>>

NextInverse == InverseCall

SpecInverse == InitInverse /\ [][NextInverse]_vars

\* ------------------------------------- inverses of a product of two matrices
NoProduct == [c |-> IDENTITY(4), inv_c |-> Panicked, inv_a |-> Panicked,
              inv_b |-> Panicked, reversed |-> Panicked, back |-> Panicked]

\* a * b when both have a value
MulOutcomes(a, b) == IF a.panic \/ b.panic THEN Panicked ELSE Ok(MatMul(a.val, b.val))

\* the matrices of dimension n whose rows are different rows among the first k
\* of the pool
DistinctRows(n, k) ==
  {FromRows(n, rows) : rows \in {f \in [1 .. n -> 1 .. k] :
                                   \A i, j \in 1 .. n : i # j => f[i] # f[j]}}

InitProduct ==
  /\ Idle
  /\ impl = "classic"
  /\ \E a \in DistinctRows(4, MaxPair) :
     \E b \in DistinctRows(4, MaxPair) \cup {transpose(m) : m \in DistinctRows(4, MaxPair)} :
       unit = [fn |-> "product", pc |-> "call", xs |-> <<a, b>>, h |-> 0,
               result |-> NoProduct]

\* c = a * b; c.inverse(), b.inverse() * a.inverse() and c * b.inverse()
ProductCall ==
  /\ unit.fn = "product" /\ unit.pc = "call"
  /\ LET a == unit.xs[1]
         b == unit.xs[2]
         c == MatMul(a, b)
         inv_a == inverse(a)
         inv_b == inverse(b)
     IN  unit' = [unit EXCEPT !.pc = "done",
                              !.result = [c |-> c, inv_c |-> inverse(c),
                                          inv_a |-> inv_a, inv_b |-> inv_b,
                                          reversed |-> MulOutcomes(inv_b, inv_a),
                                          back |-> MulOutcomes(Ok(c), inv_b)]]
  /\ UNCHANGED <<world, camera, depth, impl, image, written, px, py, rpc,
                 stack, ret, last, shade, pass, first, calls>>

NextProduct == ProductCall

SpecProduct == InitProduct /\ [][NextProduct]_vars

\* ----------------------------------------------------------- transformations
\* a matrix written out by its rows of integers and fractions
Rows4(r0, r1, r2, r3) ==
  LET rows == <<r0, r1, r2, r3>>
  IN  Matrix(4, [row \in 0 .. 3 |-> [col \in 0 .. 3 |-> rows[row + 1][col + 1]]])

\* an angle r is kept as the pair of r.cos() and r.sin()
Angle(cos, sin) == [cos |-> cos, sin |-> sin]

RightMultiply(built, self) == MatMul(self, built)
\* `Matrix::new([...]) * *self`
LeftMultiply(built, self) == MatMul(built, self)

TranslationMatrix(x, y, z) ==
  Rows4(<<Num(1), Num(0), Num(0), x>>, <<Num(0), Num(1), Num(0), y>>,
        <<Num(0), Num(0), Num(1), z>>, <<Num(0), Num(0), Num(0), Num(1)>>)

ScalingMatrix(x, y, z) ==
  Rows4(<<x, Num(0), Num(0), Num(0)>>, <<Num(0), y, Num(0), Num(0)>>,
        <<Num(0), Num(0), z, Num(0)>>, <<Num(0), Num(0), Num(0), Num(1)>>)

ShearingMatrix(xy, xz, yx, yz, zx, zy) ==
  Rows4(<<Num(1), xy, xz, Num(0)>>, <<yx, Num(1), yz, Num(0)>>,
        <<zx, zy, Num(1), Num(0)>>, <<Num(0), Num(0), Num(0), Num(1)>>)

RotationXMatrix(r) ==
  Rows4(<<Num(1), Num(0), Num(0), Num(0)>>, <<Num(0), r.cos, RatNeg(r.sin), Num(0)>>,
        <<Num(0), r.sin, r.cos, Num(0)>>, <<Num(0), Num(0), Num(0), Num(1)>>)

RotationYMatrix(r) ==
  Rows4(<<r.cos, Num(0), r.sin, Num(0)>>, <<Num(0), Num(1), Num(0), Num(0)>>,
        <<RatNeg(r.sin), Num(0), r.cos, Num(0)>>, <<Num(0), Num(0), Num(0), Num(1)>>)

RotationZMatrix(r) ==
  Rows4(<<r.cos, RatNeg(r.sin), Num(0), Num(0)>>, <<r.sin, r.cos, Num(0), Num(0)>>,
        <<Num(0), Num(0), Num(1), Num(0)>>, <<Num(0), Num(0), Num(0), Num(1)>>)

translation(self, x, y, z) == LeftMultiply(TranslationMatrix(x, y, z), self)
scaling(self, x, y, z) == LeftMultiply(ScalingMatrix(x, y, z), self)
shearing(self, xy, xz, yx, yz, zx, zy) ==
  LeftMultiply(ShearingMatrix(xy, xz, yx, yz, zx, zy), self)
rotation_x(self, r) == LeftMultiply(RotationXMatrix(r), self)
rotation_y(self, r) == LeftMultiply(RotationYMatrix(r), self)
rotation_z(self, r) == LeftMultiply(RotationZMatrix(r), self)

\* Point: w() is 1.0
Point(x, y, z) == [x |-> x, y |-> y, z |-> z]

\* impl Mul<Point> for Matrix<4>
MulPoint(m, rhs) ==
  LET dot(row) ==
        RatAdd(RatAdd(RatAdd(RatMul(Index(m, row, 0), rhs.x),
                             RatMul(Index(m, row, 1), rhs.y)),
                      RatMul(Index(m, row, 2), rhs.z)),
               RatMul(Index(m, row, 3), Num(1)))
  IN  Point(dot(0), dot(1), dot(2))

\* impl PartialEq for Point
PointEq(a, b) == ApproxEq(a.x, b.x) /\ ApproxEq(a.y, b.y) /\ ApproxEq(a.z, b.z)

\* the arguments the transformations are called with
Translations == {<<Num(10), Num(5), Num(7)>>}
Scalings == {<<Num(2), Num(-1), Rat(1, 2)>>}
Shears == {<<Num(0), Num(0), Num(0), Num(1), Num(0), Num(2)>>}
Angles == {Angle(Num(0), Num(1)), Angle(Rat(3, 5), Rat(4, 5))}
Receivers == {IDENTITY(4), FromRows(4, <<1, 2, 3, 4>>)}
Points == {Point(Num(2), Num(3), Num(4))}

InitChain ==
  /\ Idle
  /\ impl = "classic"
  /\ \E m \in Receivers, p \in Points :
       unit = [fn |-> "chain", pc |-> "call", xs |-> <<m, p>>, h |-> 0,
               result |-> [m |-> m, built |-> <<>>]]

\* the chain after one more call: the matrix the call built and its result
Chained(built, m) ==
  [unit EXCEPT !.h = @ + 1,
               !.result = [m |-> m, built |-> Append(unit.result.built, built)]]

Translation ==
  /\ unit.fn = "chain" /\ unit.h < MaxChain
  /\ \E a \in Translations :
       unit' = Chained(TranslationMatrix(a[1], a[2], a[3]),
                       translation(unit.result.m, a[1], a[2], a[3]))
  /\ UNCHANGED <<world, camera, depth, impl, image, written, px, py, rpc,
                 stack, ret, last, shade, pass, first, calls>>

Scaling ==
  /\ unit.fn = "chain" /\ unit.h < MaxChain
  /\ \E a \in Scalings :
       unit' = Chained(ScalingMatrix(a[1], a[2], a[3]),
                       scaling(unit.result.m, a[1], a[2], a[3]))
  /\ UNCHANGED <<world, camera, depth, impl, image, written, px, py, rpc,
                 stack, ret, last, shade, pass, first, calls>>

Shearing ==
  /\ unit.fn = "chain" /\ unit.h < MaxChain
  /\ \E a \in Shears :
       unit' = Chained(ShearingMatrix(a[1], a[2], a[3], a[4], a[5], a[6]),
                       shearing(unit.result.m, a[1], a[2], a[3], a[4], a[5], a[6]))
  /\ UNCHANGED <<world, camera, depth, impl, image, written, px, py, rpc,
                 stack, ret, last, shade, pass, first, calls>>

RotationX ==
  /\ unit.fn = "chain" /\ unit.h < MaxChain
  /\ \E r \in Angles :
       unit' = Chained(RotationXMatrix(r), rotation_x(unit.result.m, r))
  /\ UNCHANGED <<world, camera, depth, impl, image, written, px, py, rpc,
                 stack, ret, last, shade, pass, first, calls>>

RotationY ==
  /\ unit.fn = "chain" /\ unit.h < MaxChain
  /\ \E r \in Angles :
       unit' = Chained(RotationYMatrix(r), rotation_y(unit.result.m, r))
  /\ UNCHANGED <<world, camera, depth, impl, image, written, px, py, rpc,
                 stack, ret, last, shade, pass, first, calls>>

RotationZ ==
  /\ unit.fn = "chain" /\ unit.h < MaxChain
  /\ \E r \in Angles :
       unit' = Chained(RotationZMatrix(r), rotation_z(unit.result.m, r))
  /\ UNCHANGED <<world, camera, depth, impl, image, written, px, py, rpc,
                 stack, ret, last, shade, pass, first, calls>>

NextChain ==
  \/ Translation \/ Scaling \/ Shearing
  \/ RotationX \/ RotationY \/ RotationZ

SpecChain == InitChain /\ [][NextChain]_vars

\* ------------------------------------------------------- points and vectors
\* a Point or a Vector: the type of the value and its coordinates; w() is
\* 1.0 for a Point and 0.0 for a Vector
Typed(kind, x, y, z) ==
  [kind |-> kind, x |-> x, y |-> y, z |-> z, w |-> IF kind = "point" THEN 1 ELSE 0]

\* impl Add<Vector> for Point: Output = Point
PointAddVector(self, other) ==
  Typed("point", self.x + other.x, self.y + other.y, self.z + other.z)

\* impl Add for Point: Output = Point
PointAddPoint(self, other) ==
  Typed("point", self.x + other.x, self.y + other.y, self.z + other.z)

\* impl Sub for Point: Output = Vector
PointSubPoint(self, other) ==
  Typed("vector", self.x - other.x, self.y - other.y, self.z - other.z)

\* impl Add for Vector: Output = Vector
VectorAddVector(self, other) ==
  Typed("vector", self.x + other.x, self.y + other.y, self.z + other.z)

\* impl Add<Point> for Vector: Output = Point
VectorAddPoint(self, other) ==
  Typed("point", self.x + other.x, self.y + other.y, self.z + other.z)

\* impl Sub for Vector: Output = Vector
VectorSubVector(self, other) ==
  Typed("vector", self.x - other.x, self.y - other.y, self.z - other.z)

\* impl Add for Tuple of the four-component Tuple: w is added like x, y, z;
\* is_point() and is_vector() tell what the sum is
TupleAdd(self, other) ==
  LET w == self.w + other.w
  IN  [kind |-> IF w = 1 THEN "point" ELSE IF w = 0 THEN "vector" ELSE "neither",
       x |-> self.x + other.x, y |-> self.y + other.y, z |-> self.z + other.z,
       w |-> w]

Operands ==
  {Typed(kind, c[1], c[2], c[3]) :
     kind \in {"point", "vector"}, c \in [1 .. 3 -> (-MaxCoord) .. MaxCoord]}

InitTuple ==
  /\ Idle
  /\ impl = "classic"
  /\ \E a, b \in Operands :
       unit = [fn |-> "tuple", pc |-> "call", xs |-> <<a, b>>, h |-> 0,
               result |-> [op |-> "none", out |-> a]]

\* unit after the operator op has been applied to the operands
Applied(op, out) == [unit EXCEPT !.pc = "done", !.result = [op |-> op, out |-> out]]

AddPointVector ==
  /\ unit.fn = "tuple" /\ unit.pc = "call"
  /\ unit.xs[1].kind = "point" /\ unit.xs[2].kind = "vector"
  /\ unit' = Applied("add", PointAddVector(unit.xs[1], unit.xs[2]))
  /\ UNCHANGED <<world, camera, depth, impl, image, written, px, py, rpc,
                 stack, ret, last, shade, pass, first, calls>>

AddPointPoint ==
  /\ unit.fn = "tuple" /\ unit.pc = "call"
  /\ unit.xs[1].kind = "point" /\ unit.xs[2].kind = "point"
  /\ unit' = Applied("add", PointAddPoint(unit.xs[1], unit.xs[2]))
  /\ UNCHANGED <<world, camera, depth, impl, image, written, px, py, rpc,
                 stack, ret, last, shade, pass, first, calls>>

SubPointPoint ==
  /\ unit.fn = "tuple" /\ unit.pc = "call"
  /\ unit.xs[1].kind = "point" /\ unit.xs[2].kind = "point"
  /\ unit' = Applied("sub", PointSubPoint(unit.xs[1], unit.xs[2]))
  /\ UNCHANGED <<world, camera, depth, impl, image, written, px, py, rpc,
                 stack, ret, last, shade, pass, first, calls>>

AddVectorVector ==
  /\ unit.fn = "tuple" /\ unit.pc = "call"
  /\ unit.xs[1].kind = "vector" /\ unit.xs[2].kind = "vector"
  /\ unit' = Applied("add", VectorAddVector(unit.xs[1], unit.xs[2]))
  /\ UNCHANGED <<world, camera, depth, impl, image, written, px, py, rpc,
                 stack, ret, last, shade, pass, first, calls>>

AddVectorPoint ==
  /\ unit.fn = "tuple" /\ unit.pc = "call"
  /\ unit.xs[1].kind = "vector" /\ unit.xs[2].kind = "point"
  /\ unit' = Applied("add", VectorAddPoint(unit.xs[1], unit.xs[2]))
  /\ UNCHANGED <<world, camera, depth, impl, image, written, px, py, rpc,
                 stack, ret, last, shade, pass, first, calls>>

SubVectorVector ==
  /\ unit.fn = "tuple" /\ unit.pc = "call"
  /\ unit.xs[1].kind = "vector" /\ unit.xs[2].kind = "vector"
  /\ unit' = Applied("sub", VectorSubVector(unit.xs[1], unit.xs[2]))
  /\ UNCHANGED <<world, camera, depth, impl, image, written, px, py, rpc,
                 stack, ret, last, shade, pass, first, calls>>

AddTuple ==
  /\ unit.fn = "tuple" /\ unit.pc = "call"
  /\ unit' = Applied("add", TupleAdd(unit.xs[1], unit.xs[2]))
  /\ UNCHANGED <<world, camera, depth, impl, image, written, px, py, rpc,
                 stack, ret, last, shade, pass, first, calls>>

NextTuple ==
  \/ AddPointVector \/ AddPointPoint \/ SubPointPoint
  \/ AddVectorVector \/ AddVectorPoint \/ SubVectorVector
  \/ AddTuple

SpecTuple == InitTuple /\ [][NextTuple]_vars

\* ------------------------------------------------------------------ patterns
\* Color::new(r, g, b) of fractions
Rgb(r, g, b) == [red |-> r, green |-> g, blue |-> b]

\* m * point when m has a value
MulPointOutcome(m, point) == IF m.panic THEN Panicked ELSE Ok(MulPoint(m.val, point))

\* TestPattern::pattern_at: the point in pattern space, as a color
pattern_at(pattern, point) ==
  LET local == MulPointOutcome(inverse(pattern.transform), point)
  IN  IF local.panic THEN Panicked
      ELSE Ok(Rgb(local.val.x, local.val.y, local.val.z))

\* the matrix pattern_at_shape multiplies the world point with
ObjectSpace(transform) ==
  LET inv == inverse(transform)
  IN  IF inv.panic THEN Panicked ELSE Ok(transpose(inv.val))

\* Pattern::pattern_at_shape
pattern_at_shape(pattern, shape, point) ==
  LET local == MulPointOutcome(ObjectSpace(shape.transform), point)
  IN  IF local.panic THEN Panicked ELSE pattern_at(pattern, local.val)

\* the identity and every single transformation of it
Transforms ==
  {IDENTITY(4)}
    \cup {translation(IDENTITY(4), a[1], a[2], a[3]) : a \in Translations}
    \cup {scaling(IDENTITY(4), a[1], a[2], a[3]) : a \in Scalings}
    \cup {shearing(IDENTITY(4), a[1], a[2], a[3], a[4], a[5], a[6]) : a \in Shears}
    \cup {rotation_x(IDENTITY(4), r) : r \in Angles}
    \cup {rotation_y(IDENTITY(4), r) : r \in Angles}
    \cup {rotation_z(IDENTITY(4), r) : r \in Angles}

PatternPoints ==
  {Point(Num(2), Num(3), Num(4)), Point(Rat(5, 2), Num(3), Rat(7, 2)),
   Point(Num(0), Num(-1), Num(1))}

InitPattern ==
  /\ Idle
  /\ impl = "classic"
  /\ \E st \in Transforms, pt \in Transforms, p \in PatternPoints :
       unit = [fn |-> "pattern_at_shape", pc |-> "call",
               xs |-> <<[transform |-> pt], [transform |-> st], p>>, h |-> 0,
               result |-> Panicked]

PatternAtShape ==
  /\ unit.fn = "pattern_at_shape" /\ unit.pc = "call"
  /\ unit' = [unit EXCEPT !.pc = "done",
                          !.result = pattern_at_shape(unit.xs[1], unit.xs[2], unit.xs[3])]
  /\ UNCHANGED <<world, camera, depth, impl, image, written, px, py, rpc,
                 stack, ret, last, shade, pass, first, calls>>

NextPattern == PatternAtShape

SpecPattern == InitPattern /\ [][NextPattern]_vars

\* ---------------------------------------------- direct calls of intersect
\* the shapes a world may hold at its k-th place: planes, and cylinders of
\* height two, closed or open
ShapesAt(k) ==
  { Plane(k, k - 1, pos, Matte) : pos \in {0, ONE} }
  \cup { Cylinder(k, k - 1, pos, Matte, -ONE, ONE, closed) :
            pos \in {0, ONE}, closed \in BOOLEAN }

ObjectLists ==
  UNION { { objects \in [1 .. n -> UNION { ShapesAt(k) : k \in 1 .. n }] :
              \A k \in 1 .. n : objects[k] \in ShapesAt(k) } : n \in 1 .. MaxObjects }

\* rays along the axis, upwards and downwards, a ray without direction and
\* a ray of NaN coordinates
AxialRays ==
  { Ray(origin, direction) : origin \in {-3 * ONE, ONE \div 2},
                             direction \in {ONE, -ONE, 0} }
  \cup {NanRay(0)}

InitIntersect ==
  /\ Idle
  /\ impl = "classic"
  /\ \E objects \in ObjectLists, r \in AxialRays :
       unit = [fn |-> "intersect", pc |-> "call", xs |-> <<objects, r>>, h |-> 0,
               result |-> <<>>]

\* r.intersect(shape) for one of the shapes
RayIntersectCall ==
  /\ unit.fn = "intersect" /\ unit.pc = "call"
  /\ \E k \in DOMAIN unit.xs[1] :
       unit' = [unit EXCEPT !.pc = "ray", !.h = k,
                            !.result = RayIntersect(unit.xs[2], unit.xs[1][k])]
  /\ UNCHANGED <<world, camera, depth, impl, image, written, px, py, rpc,
                 stack, ret, last, shade, pass, first, calls>>

\* w.intersect(&r) for the world of these shapes
WorldIntersectCall ==
  /\ unit.fn = "intersect" /\ unit.pc = "call"
  /\ unit' = [unit EXCEPT !.pc = "world",
                          !.result = WorldIntersect([objects |-> unit.xs[1],
                                                     lights |-> <<>>], unit.xs[2])]
  /\ UNCHANGED <<world, camera, depth, impl, image, written, px, py, rpc,
                 stack, ret, last, shade, pass, first, calls>>

NextIntersect == RayIntersectCall \/ WorldIntersectCall

SpecIntersect == InitIntersect /\ [][NextIntersect]_vars

\* ------------------------------------------------- canvases and their files
\* Color::default()
ColorDefault == Rgb(Num(0), Num(0), Num(0))

\* Canvas::new for colors of three channels
CanvasNewRgb(width, height) ==
  [width |-> width, height |-> height,
   pixels |-> [k \in 0 .. (width * height - 1) |-> ColorDefault]]

\* a < b of f64: false as soon as one side is NaN
RatLt(a, b) ==
  IF Finite(a) /\ Finite(b) THEN a.n * b.d < b.n * a.d
  ELSE IF (a.d = 0 /\ a.n = 0) \/ (b.d = 0 /\ b.n = 0) THEN FALSE
  ELSE IF a.d = 0 THEN a.n < 0 /\ ~(b.d = 0 /\ b.n < 0)
  ELSE b.n > 0

\* f64::floor: the non-finite values stay what they are
Floor(a) == IF Finite(a) THEN Num(a.n \div a.d) ELSE a

\* f64::clamp: NaN passes both comparisons and is returned
Clamp(a, min, max) ==
  IF RatLt(a, min) THEN min ELSE IF RatLt(max, a) THEN max ELSE a

\* Display of an f64 without a fractional part, or of NaN
DisplayF64(a) ==
  IF Finite(a) THEN ToString(a.n)
  ELSE IF a.n = 0 THEN "NaN" ELSE IF a.n > 0 THEN "inf" ELSE "-inf"

\* Color * f64
ColorScale(c, rhs) ==
  Rgb(RatMul(c.red, rhs), RatMul(c.green, rhs), RatMul(c.blue, rhs))

\* Display for Color: "{} {} {}" of the floored and clamped channels
ColorDisplay(c) ==
  <<DisplayF64(Clamp(Floor(c.red), Num(0), Num(255))), " ",
    DisplayF64(Clamp(Floor(c.green), Num(0), Num(255))), " ",
    DisplayF64(Clamp(Floor(c.blue), Num(0), Num(255)))>>

\* the loop of to_ppm from the pixel of index i on
RECURSIVE PpmPixels(_, _)
PpmPixels(cv, i) ==
  IF i >= cv.width * cv.height THEN <<>>
  ELSE (IF i % cv.width = 0 THEN <<"\n">> ELSE <<>>)
       \o ColorDisplay(ColorScale(cv.pixels[i], Num(255)))
       \o <<" ">>
       \o PpmPixels(cv, i + 1)

\* Canvas::to_ppm: what is written to the file, piece by piece
to_ppm(cv) ==
  <<"P3", "\n", ToString(cv.width), " ", ToString(cv.height), "\n", "255">>
  \o PpmPixels(cv, 0)

\* the colors written: inside the range, outside of it on both sides, and
\* with channels that are not finite
Half == Rat(1, 2)
Inf == [n |-> 1, d |-> 0]
Colors ==
  { Rgb(Num(1), Num(0), Half),
    Rgb(RatNeg(Half), Rat(3, 2), Rat(999, 1000)),
    Rgb(NaN, Inf, RatNeg(Inf)) }

NoWrite == [x |-> 0, y |-> 0, color |-> ColorDefault, before |-> CanvasNewRgb(0, 0)]

InitCanvas ==
  /\ Idle
  /\ impl = "classic"
  /\ \E width \in 0 .. MaxSize, height \in 0 .. MaxSize :
       unit = [fn |-> "canvas", pc |-> "new",
               xs |-> <<CanvasNewRgb(width, height), 0>>, h |-> NoWrite,
               result |-> <<>>]

\* c.write(x, y, color) with x and y inside the canvas
Write ==
  /\ unit.fn = "canvas" /\ unit.pc \in {"new", "written"}
  /\ unit.xs[2] < MaxWrites
  /\ \E x \in 0 .. (unit.xs[1].width - 1), y \in 0 .. (unit.xs[1].height - 1),
        color \in Colors :
       unit' = [unit EXCEPT !.pc = "written",
                            !.xs = <<CanvasWrite(unit.xs[1], x, y, color),
                                     unit.xs[2] + 1>>,
                            !.h = [x |-> x, y |-> y, color |-> color,
                                   before |-> unit.xs[1]]]
  /\ UNCHANGED <<world, camera, depth, impl, image, written, px, py, rpc,
                 stack, ret, last, shade, pass, first, calls>>

\* c.to_ppm(filename) on a file that can be created
ToPpm ==
  /\ unit.fn = "canvas" /\ unit.pc \in {"new", "written"}
  /\ unit' = [unit EXCEPT !.pc = "ppm", !.result = to_ppm(unit.xs[1])]
  /\ UNCHANGED <<world, camera, depth, impl, image, written, px, py, rpc,
                 stack, ret, last, shade, pass, first, calls>>

NextCanvas == Write \/ ToPpm

SpecCanvas == InitCanvas /\ [][NextCanvas]_vars

\* ---------------------------------------------------- direct calls of lighting
\* a material that reflects more than it receives
Bright == Material(WHITE, ONE \div 2, (9 * ONE) \div 10, 0, 0, ONE)

\* the eye along the normal, against it, at 45 degrees of either and aside
EyeVectors == {-ONE, -70711, 0, 70711, ONE}

LightingInputs ==
  { <<material, PointLight(position, intensity), 0, eyev, normalv, in_shadow>> :
      material \in Palette \cup {Bright}, position \in {-10 * ONE, 10 * ONE},
      intensity \in {ONE \div 2, ONE}, eyev \in EyeVectors, normalv \in {-ONE, ONE},
      in_shadow \in BOOLEAN }

InitLighting ==
  /\ Idle
  /\ impl = "classic"
  /\ \E xs \in LightingInputs :
       unit = [fn |-> "lighting", pc |-> "call", xs |-> xs, h |-> 0, result |-> BLACK]

Lighting ==
  /\ unit.fn = "lighting" /\ unit.pc = "call"
  /\ unit' = [unit EXCEPT !.pc = "done",
                          !.result = lighting(unit.xs[1], unit.xs[2], unit.xs[3],
                                              unit.xs[4], unit.xs[5], unit.xs[6])]
  /\ UNCHANGED <<world, camera, depth, impl, image, written, px, py, rpc,
                 stack, ret, last, shade, pass, first, calls>>

NextLighting == Lighting

SpecLighting == InitLighting /\ [][NextLighting]_vars

\* ------------------------------------------- direct calls of pattern_at
\* a % b of f64 for integral values: the remainder has the sign of a
Rem(a, b) == Sgn(a) * (Abs(a) % b)

\* Checkerboard::pattern_at deciding on x and y only
CheckerboardFlat(pattern, point) ==
  LET local == MulPointOutcome(inverse(pattern.transform), point)
  IN  IF local.panic THEN Panicked
      ELSE IF ~(Finite(local.val.x) /\ Finite(local.val.y)) THEN Ok(pattern.b)
      ELSE IF Rem(Floor(local.val.x).n + Floor(local.val.y).n, 2) = 0
           THEN Ok(pattern.a) ELSE Ok(pattern.b)

\* Checkerboard::pattern_at; a sum with a non-finite term has no remainder
\* equal to zero
CheckerboardPatternAt(pattern, point) ==
  LET local == MulPointOutcome(inverse(pattern.transform), point)
  IN  IF local.panic THEN Panicked
      ELSE IF ~(Finite(local.val.x) /\ Finite(local.val.y) /\ Finite(local.val.z))
           THEN Ok(pattern.b)
      ELSE IF Rem(Floor(local.val.x).n + Floor(local.val.y).n
                    + Floor(local.val.z).n, 2) = 0
           THEN Ok(pattern.a) ELSE Ok(pattern.b)

\* Stripe::pattern_at
StripePatternAt(pattern, point) ==
  LET local == MulPointOutcome(inverse(pattern.transform), point)
  IN  IF local.panic THEN Panicked
      ELSE IF ~Finite(local.val.x) THEN Ok(pattern.b)
      ELSE IF Rem(Floor(local.val.x).n, 2) = 0 THEN Ok(pattern.a) ELSE Ok(pattern.b)

\* Checkerboard::new / Stripe::new: the transform is the identity
TwoColors(a, b) == [a |-> a, b |-> b, transform |-> IDENTITY(4)]

\* coordinates on, just below and just above the integers around zero
Coordinates1 ==
  {Num(-2), Rat(-3, 2), Num(-1), Rat(-1, 10), Num(0), Rat(99, 100), Rat(101, 100),
   Num(2)}

InitPatternAt ==
  /\ Idle
  /\ impl = "classic"
  /\ \E x, y, z \in Coordinates1 :
       unit = [fn |-> "pattern_at", pc |-> "call",
               xs |-> <<TwoColors(Rgb(Num(1), Num(1), Num(1)), ColorDefault),
                        Point(x, y, z)>>,
               h |-> 0, result |-> Panicked]

CheckerboardCall ==
  /\ unit.fn = "pattern_at" /\ unit.pc = "call"
  /\ unit' = [unit EXCEPT !.pc = "checkerboard",
                          !.result = CheckerboardPatternAt(unit.xs[1], unit.xs[2])]
  /\ UNCHANGED <<world, camera, depth, impl, image, written, px, py, rpc,
                 stack, ret, last, shade, pass, first, calls>>

StripeCall ==
  /\ unit.fn = "pattern_at" /\ unit.pc = "call"
  /\ unit' = [unit EXCEPT !.pc = "stripe",
                          !.result = StripePatternAt(unit.xs[1], unit.xs[2])]
  /\ UNCHANGED <<world, camera, depth, impl, image, written, px, py, rpc,
                 stack, ret, last, shade, pass, first, calls>>

NextPatternAt == CheckerboardCall \/ StripeCall

SpecPatternAt == InitPatternAt /\ [][NextPatternAt]_vars

\* -------------------------- prepare_computations on either side of a plane
\* a plane, a ray that meets it from above or from below, straight or at 45
\* degrees, and the intersection Ray::intersect returns for them
InitSides ==
  /\ Idle
  /\ impl \in {"classic", "halving"}
  /\ \E pos \in {-ONE, 0, ONE}, origin \in {-2 * ONE, -ONE \div 2, ONE \div 2, 2 * ONE},
        direction \in {-ONE, -70711, 70711, ONE}, material \in {Matte, Glass} :
       unit = [fn |-> "sides", pc |-> "call",
               xs |-> RayIntersect(Ray(origin, direction), Plane(1, 0, pos, material)),
               h |-> Ray(origin, direction), result |-> NoComps]

SidesCall ==
  /\ unit.fn = "sides" /\ unit.pc = "call"
  /\ unit' = [unit EXCEPT !.pc = "done",
                          !.result = prepare_computations(unit.xs[1], unit.h,
                                                          unit.xs, impl)]
  /\ UNCHANGED <<world, camera, depth, impl, image, written, px, py, rpc,
                 stack, ret, last, shade, pass, first, calls>>

NextSides == SidesCall

SpecSides == InitSides /\ [][NextSides]_vars

\* --------------------------------------------------------------------- cubes
\* f64::max and f64::min: a NaN argument is passed over
RatMax(a, b) == IF a = NaN THEN b ELSE IF b = NaN THEN a ELSE IF RatLt(a, b) THEN b ELSE a
RatMin(a, b) == IF a = NaN THEN b ELSE IF b = NaN THEN a ELSE IF RatLt(b, a) THEN b ELSE a

\* Vector::new(x, y, z)
Vector(x, y, z) == [x |-> x, y |-> y, z |-> z]

\* check_axis returning its pair as it was computed
CheckAxisUnswapped(origin, direction) ==
  IF ~RatLt(IF RatLt(direction, Num(0)) THEN RatNeg(direction) ELSE direction,
            Rat(EPSILON, ONE))
  THEN <<RatDiv(RatAdd(Num(-1), RatNeg(origin)), direction),
         RatDiv(RatAdd(Num(1), RatNeg(origin)), direction)>>
  ELSE <<RatMul(RatAdd(Num(-1), RatNeg(origin)), Inf),
         RatMul(RatAdd(Num(1), RatNeg(origin)), Inf)>>

check_axis(origin, direction) ==
  LET tmin_numerator == RatAdd(Num(-1), RatNeg(origin))
      tmax_numerator == RatAdd(Num(1), RatNeg(origin))
      abs  == IF RatLt(direction, Num(0)) THEN RatNeg(direction) ELSE direction
      tmin == IF ~RatLt(abs, Rat(EPSILON, ONE)) /\ direction # NaN
              THEN RatDiv(tmin_numerator, direction)
              ELSE RatMul(tmin_numerator, Inf)
      tmax == IF ~RatLt(abs, Rat(EPSILON, ONE)) /\ direction # NaN
              THEN RatDiv(tmax_numerator, direction)
              ELSE RatMul(tmax_numerator, Inf)
  IN  IF RatLt(tmax, tmin) THEN <<tmax, tmin>> ELSE <<tmin, tmax>>

\* Cube::local_intersect
CubeLocalIntersect(r) ==
  LET x == check_axis(r.origin.x, r.direction.x)
      y == check_axis(r.origin.y, r.direction.y)
      z == check_axis(r.origin.z, r.direction.z)
      tmin == RatMax(RatMax(x[1], y[1]), z[1])
      tmax == RatMin(RatMin(x[2], y[2]), z[2])
  IN  IF RatLt(tmax, tmin) THEN <<>> ELSE <<tmin, tmax>>

\* origins outside, on a face and inside; directions along, against and
\* across an axis, and too flat to count as crossing it
CubeOrigins == {Num(-5), Num(-1), Num(0), Rat(1, 2), Num(2)}
CubeDirections == {Num(-1), Num(0), Rat(1, ONE), Num(1)}
Crossing(d) == d \in {Num(-1), Num(1)}

InitCube ==
  /\ Idle
  /\ impl = "classic"
  /\ \E ox, oy, oz \in CubeOrigins, dx, dy, dz \in CubeDirections :
       /\ Crossing(dx) \/ Crossing(dy) \/ Crossing(dz)
       /\ unit = [fn |-> "cube", pc |-> "call",
                  xs |-> [origin |-> Point(ox, oy, oz), direction |-> Vector(dx, dy, dz)],
                  h |-> 0, result |-> <<>>]

CubeIntersect ==
  /\ unit.fn = "cube" /\ unit.pc = "call"
  /\ unit' = [unit EXCEPT !.pc = "done", !.result = CubeLocalIntersect(unit.xs)]
  /\ UNCHANGED <<world, camera, depth, impl, image, written, px, py, rpc,
                 stack, ret, last, shade, pass, first, calls>>

NextCube == CubeIntersect

SpecCube == InitCube /\ [][NextCube]_vars

\* ------------------------------------------------------ cylinders and cones
RatSub(a, b) == RatAdd(a, RatNeg(b))
RatAbs(a) == IF a.n < 0 THEN RatNeg(a) ELSE a
RatSq(a) == RatMul(a, a)

\* the square root of a fraction that has an exact one
RootOf(k) == CHOOSE j \in 0 .. k : j * j = k
IsSquare(a) == \E j \in 0 .. a.n : j * j = a.n /\ \E i \in 1 .. a.d : i * i = a.d
RatSqrt(a) == Rat(RootOf(a.n), RootOf(a.d))

\* a cylinder (cone = FALSE) or a double cone around the y axis
Truncated(cone, minimum, maximum, closed) ==
  [cone |-> cone, minimum |-> minimum, maximum |-> maximum, closed |-> closed]

\* the y coordinate of r.position(t)
YAt(r, t) == RatAdd(r.origin.y, RatMul(t, r.direction.y))

\* check_cap of cylinder.rs (radius 1) and of cone.rs (against y.abs())
CheckCap(shape, r, t, y) ==
  LET x == RatAdd(r.origin.x, RatMul(t, r.direction.x))
      z == RatAdd(r.origin.z, RatMul(t, r.direction.z))
      reach == IF shape.cone THEN RatAbs(y) ELSE Num(1)
  IN  ~RatLt(reach, RatAdd(RatSq(x), RatSq(z)))

\* intersect_caps of both shapes: what it pushes
IntersectCaps(shape, r) ==
  IF ~shape.closed \/ ApproxEq(r.direction.y, Num(0)) THEN <<>>
  ELSE LET t1 == RatDiv(RatSub(shape.minimum, r.origin.y), r.direction.y)
           t2 == RatDiv(RatSub(shape.maximum, r.origin.y), r.direction.y)
       IN  (IF CheckCap(shape, r, t1, shape.minimum) THEN <<t1>> ELSE <<>>)
           \o (IF CheckCap(shape, r, t2, shape.maximum) THEN <<t2>> ELSE <<>>)

\* the coefficients of the quadratic of the walls
QuadA(shape, r) ==
  IF shape.cone
  THEN RatAdd(RatSub(RatSq(r.direction.x), RatSq(r.direction.y)), RatSq(r.direction.z))
  ELSE RatAdd(RatSq(r.direction.x), RatSq(r.direction.z))

QuadB(shape, r) ==
  LET xz == RatAdd(RatMul(Num(2), RatMul(r.origin.x, r.direction.x)),
                   RatMul(Num(2), RatMul(r.origin.z, r.direction.z)))
  IN  IF shape.cone
      THEN RatSub(xz, RatMul(Num(2), RatMul(r.origin.y, r.direction.y)))
      ELSE xz

QuadC(shape, r) ==
  IF shape.cone
  THEN RatAdd(RatSub(RatSq(r.origin.x), RatSq(r.origin.y)), RatSq(r.origin.z))
  ELSE RatSub(RatAdd(RatSq(r.origin.x), RatSq(r.origin.z)), Num(1))

Discriminant(shape, r) ==
  RatSub(RatSq(QuadB(shape, r)),
         RatMul(Num(4), RatMul(QuadA(shape, r), QuadC(shape, r))))

\* the part of local_intersect both shapes share: the two roots of the
\* walls, kept when strictly between minimum and maximum, then the caps
WallsAndCaps(shape, r) ==
  LET a == QuadA(shape, r)
      b == QuadB(shape, r)
      disc == Discriminant(shape, r)
      ta == RatDiv(RatSub(RatNeg(b), RatSqrt(disc)), RatMul(Num(2), a))
      tb == RatDiv(RatAdd(RatNeg(b), RatSqrt(disc)), RatMul(Num(2), a))
      t0 == IF RatLt(tb, ta) THEN tb ELSE ta
      t1 == IF RatLt(tb, ta) THEN ta ELSE tb
      Between(t) == RatLt(shape.minimum, YAt(r, t)) /\ RatLt(YAt(r, t), shape.maximum)
  IN  IF RatLt(disc, Num(0)) THEN <<>>
      ELSE (IF Between(t0) THEN <<t0>> ELSE <<>>)
           \o (IF Between(t1) THEN <<t1>> ELSE <<>>)
           \o IntersectCaps(shape, r)

\* Cylinder::local_intersect for any ray
CylinderLocalIntersectAny(shape, r) ==
  IF QuadA(shape, r) = Num(0) THEN IntersectCaps(shape, r)
  ELSE WallsAndCaps(shape, r)

\* Cone::local_intersect
ConeLocalIntersect(shape, r) ==
  IF QuadA(shape, r) = Num(0) /\ QuadB(shape, r) = Num(0) THEN <<>>
  ELSE IF QuadA(shape, r) = Num(0)
       THEN <<RatDiv(RatNeg(QuadC(shape, r)), RatMul(Num(2), QuadB(shape, r)))>>
            \o IntersectCaps(shape, r)
       ELSE WallsAndCaps(shape, r)

\* shapes cut to a finite height, and the rays with small whole coordinates
\* whose roots are fractions
TruncatedShapes ==
  { Truncated(cone, minimum, maximum, closed) :
      cone \in BOOLEAN, closed \in BOOLEAN,
      minimum \in {Rat(-1, 2), Num(-1)}, maximum \in {Rat(1, 8), Num(2)} }

Whole == {Num(k) : k \in -1 .. 1}

ExactRays(shape) ==
  { r \in [origin : [x : {Num(0)}, y : Whole, z : {Num(k) : k \in -2 .. 1}],
           direction : [x : Whole, y : Whole, z : Whole]] :
      /\ r.direction # Vector(Num(0), Num(0), Num(0))
      /\ RatLt(Discriminant(shape, r), Num(0)) \/ IsSquare(Discriminant(shape, r)) }

InitTruncated ==
  /\ Idle
  /\ impl = "classic"
  /\ \E shape \in TruncatedShapes : \E r \in ExactRays(shape) :
       unit = [fn |-> "truncated", pc |-> "call", xs |-> <<shape, r>>, h |-> 0,
               result |-> <<>>]

CylinderIntersect ==
  /\ unit.fn = "truncated" /\ unit.pc = "call" /\ ~unit.xs[1].cone
  /\ unit' = [unit EXCEPT !.pc = "done",
                          !.result = CylinderLocalIntersectAny(unit.xs[1], unit.xs[2])]
  /\ UNCHANGED <<world, camera, depth, impl, image, written, px, py, rpc,
                 stack, ret, last, shade, pass, first, calls>>

ConeIntersect ==
  /\ unit.fn = "truncated" /\ unit.pc = "call" /\ unit.xs[1].cone
  /\ unit' = [unit EXCEPT !.pc = "done",
                          !.result = ConeLocalIntersect(unit.xs[1], unit.xs[2])]
  /\ UNCHANGED <<world, camera, depth, impl, image, written, px, py, rpc,
                 stack, ret, last, shade, pass, first, calls>>

NextTruncated == CylinderIntersect \/ ConeIntersect

SpecTruncated == InitTruncated /\ [][NextTruncated]_vars

\* ------------------------------------------------ the mutators of the shapes
\* the shapes whose set_transform, set_material and get_mut_material are
\* todo!()
Unimplemented == {"Cube", "Cylinder", "Cone"}
ShapeKinds == {"Sphere", "Plane", "TestShape"} \cup Unimplemented

\* Sphere::new, Plane::new, Cube::new, ...: identity transform, default material
NewShape(kind) == [kind |-> kind, transform |-> IDENTITY(4), material |-> Matte]

get_transform(shape) == shape.transform
get_material(shape) == shape.material

\* the shape after set_transform, or the panic of todo!()
set_transform(shape, transform) ==
  IF shape.kind \in Unimplemented THEN Panicked
  ELSE Ok([shape EXCEPT !.transform = transform])

set_material(shape, material) ==
  IF shape.kind \in Unimplemented THEN Panicked
  ELSE Ok([shape EXCEPT !.material = material])

\* the shape after get_mut_material().ambient = ambient
get_mut_material(shape, ambient) ==
  IF shape.kind \in Unimplemented THEN Panicked
  ELSE Ok([shape EXCEPT !.material.ambient = ambient])

SetupTransforms ==
  {IDENTITY(4), translation(IDENTITY(4), Num(2), Num(3), Num(4)),
   scaling(IDENTITY(4), Num(2), Num(2), Num(2))}

InitShape ==
  /\ Idle
  /\ impl = "classic"
  /\ \E kind \in ShapeKinds :
       unit = [fn |-> "shape", pc |-> "new", xs |-> NewShape(kind),
               h |-> [op |-> "new", arg |-> 0], result |-> Ok(NewShape(kind))]

\* one call of a mutator: the shape it leaves, or the unwinding of its panic
After(op, arg, outcome) ==
  [unit EXCEPT !.pc = IF outcome.panic THEN "panicked" ELSE "set",
               !.xs = IF outcome.panic THEN unit.xs ELSE outcome.val,
               !.h = [op |-> op, arg |-> arg],
               !.result = outcome]

SetTransform ==
  /\ unit.fn = "shape" /\ unit.pc # "panicked"
  /\ \E transform \in SetupTransforms :
       unit' = After("set_transform", transform, set_transform(unit.xs, transform))
  /\ UNCHANGED <<world, camera, depth, impl, image, written, px, py, rpc,
                 stack, ret, last, shade, pass, first, calls>>

SetMaterial ==
  /\ unit.fn = "shape" /\ unit.pc # "panicked"
  /\ \E material \in {Matte, Mirror, Glass} :
       unit' = After("set_material", material, set_material(unit.xs, material))
  /\ UNCHANGED <<world, camera, depth, impl, image, written, px, py, rpc,
                 stack, ret, last, shade, pass, first, calls>>

GetMutMaterial ==
  /\ unit.fn = "shape" /\ unit.pc # "panicked"
  /\ \E ambient \in {ONE \div 10, ONE} :
       unit' = After("get_mut_material", ambient, get_mut_material(unit.xs, ambient))
  /\ UNCHANGED <<world, camera, depth, impl, image, written, px, py, rpc,
                 stack, ret, last, shade, pass, first, calls>>

NextShape == SetTransform \/ SetMaterial \/ GetMutMaterial

SpecShape == InitShape /\ [][NextShape]_vars

\* -------------- prepare_computations over shapes built with the same id
\* lists of strictly increasing t over MaxObjects shapes, all of them built
\* with the id given, as Plane::new(0) beside the Sphere::new(0) of the
\* default world
SameIdInputs ==
  UNION { { [k \in 1 .. n |-> Intersection(k, TestShape(ks[k], id))] :
              ks \in [1 .. n -> 1 .. MaxObjects], id \in 0 .. 1 }
          : n \in 1 .. (MaxLen + 1) }

InitSameId ==
  /\ Idle
  /\ impl \in {"classic", "halving"}
  /\ \E xs \in SameIdInputs : \E h \in 1 .. Len(xs) :
       unit = [fn |-> "prepare_computations", pc |-> "call", xs |-> xs, h |-> h,
               result |-> NoComps]

SpecSameId == InitSameId /\ [][NextPrep]_vars

\* ------------------------------------------- writes at any pair of coordinates
\* self.pixels[(self.width * y) + x] = color: the Vec checks the index against
\* its length only, and an index that is not below it panics
CanvasWriteAt(cv, x, y, color) ==
  IF (cv.width * y) + x \in DOMAIN cv.pixels
  THEN Ok(CanvasWrite(cv, x, y, color))
  ELSE Panicked

InitWrite ==
  /\ Idle
  /\ impl = "classic"
  /\ \E width \in 0 .. MaxSize, height \in 0 .. MaxSize :
       unit = [fn |-> "write", pc |-> "new",
               xs |-> <<CanvasNewRgb(width, height), 0>>, h |-> NoWrite,
               result |-> Ok(CanvasNewRgb(width, height))]

\* c.write(x, y, color) with any two usize within one step of the largest
\* canvas; the canvas of a call that panicked is left as it was
WriteAt ==
  /\ unit.fn = "write" /\ unit.pc \in {"new", "written"}
  /\ unit.xs[2] < MaxWrites
  /\ \E x \in 0 .. (MaxSize + 1), y \in 0 .. (MaxSize + 1), color \in Colors :
       LET outcome == CanvasWriteAt(unit.xs[1], x, y, color)
       IN  unit' = [unit EXCEPT
                      !.pc = IF outcome.panic THEN "panicked" ELSE "written",
                      !.xs = <<IF outcome.panic THEN unit.xs[1] ELSE outcome.val,
                               unit.xs[2] + 1>>,
                      !.h = [x |-> x, y |-> y, color |-> color,
                             before |-> unit.xs[1]],
                      !.result = outcome]
  /\ UNCHANGED <<world, camera, depth, impl, image, written, px, py, rpc,
                 stack, ret, last, shade, pass, first, calls>>

NextWrite == WriteAt

SpecWrite == InitWrite /\ [][NextWrite]_vars

\* ------------------------------------------------------------------- claims
Callers == {"reflected_color", "refracted_color"}

\* C1: reflected_color and refracted_color called with remaining = 0 return
\* black without calling color_at, whatever the material, and every color_at
\* call they make receives exactly remaining - 1.
C1_RemainingRespected ==
  /\ \A k \in 1 .. Len(stack) :
       stack[k].fn \in Callers /\ stack[k].pc = "traced" => stack[k].remaining > 0
  /\ \A k \in 1 .. (Len(stack) - 1) :
       stack[k].fn \in Callers =>
         /\ stack[k + 1].fn = "color_at"
         /\ stack[k + 1].remaining = stack[k].remaining - 1
  /\ last.fn \in Callers /\ last.remaining = 0 => last.value = BLACK /\ ~last.traced

\* a reflective and transparent surface met with remaining = 0, below a call
\* that was traced
C1_Witness ==
  /\ last.fn \in Callers /\ last.remaining = 0 /\ depth > 0
  /\ last.comps.object.material.reflective > 0
  /\ last.comps.object.material.transparency > 0
  /\ \E k \in 1 .. Len(stack) : stack[k].fn \in Callers /\ stack[k].pc = "traced"

\* the color_at activations at or above position k of the stack
Nested(k) == Cardinality({j \in k .. Len(stack) : stack[j].fn = "color_at"})

\* the number of color_at activations a call with this remaining can cause
\* when every hit is reflective and transparent: 1 + 2L + ... + (2L)^remaining
RECURSIVE CallBound(_, _)
CallBound(remaining, lights) ==
  IF remaining = 0 THEN 1 ELSE 1 + 2 * lights * CallBound(remaining - 1, lights)

\* C2: color_at(ray, remaining) terminates in every world (it causes a bounded
\* number of color_at calls), and the chain of nested color_at calls it
\* causes is never deeper than remaining + 1.
C2_Terminates ==
  /\ \A k \in 1 .. Len(stack) :
       stack[k].fn = "color_at" => Nested(k) <= stack[k].remaining + 1
  /\ calls <= CallBound(depth, Len(world.lights))

\* two facing mirrors, traced to the full depth
C2_Witness ==
  /\ depth = MaxRemaining /\ Nested(1) = depth + 1
  /\ \A k \in 1 .. Len(world.objects) : world.objects[k].material = Mirror
  /\ Len(world.objects) >= 2

\* the containment list of the claim: a shape is in it iff the walk has met it
\* an odd number of times, in the order the shapes were entered
ParityToggle(list, object) ==
  IF \E n \in 1 .. Len(list) : list[n].key = object.key
  THEN SelectSeq(list, LAMBDA o : o.key # object.key)
  ELSE Append(list, object)

RECURSIVE ParityList(_, _)
ParityList(xs, k) ==
  IF k = 0 THEN <<>> ELSE ParityToggle(ParityList(xs, k - 1), xs[k].object)

\* C3: for every list xs sorted by t over shapes with distinct ids, entered in
\* any id order, and every hit in xs, n1 is the refractive index of the last
\* shape of the containment list just before the hit is processed and n2 the
\* one just after the hit's shape has been toggled (1.0 when the list is empty).
C3_ContainmentIndices ==
  unit.fn = "prepare_computations" /\ unit.pc = "done" =>
    /\ unit.result.n1 = LastIndex(ParityList(unit.xs, unit.h - 1))
    /\ unit.result.n2 = LastIndex(ParityList(unit.xs, unit.h))

\* C4: hit(xs) returns the intersection with the lowest t among those with
\* t >= 0 (t = 0 counts), whatever the order of xs, and none when every t is
\* negative or xs is empty.
C4_LowestNonNegative ==
  unit.fn = "hit" /\ unit.pc = "done" =>
    LET visible == {k \in 1 .. Len(unit.xs) : unit.xs[k].t >= 0}
    IN  IF visible = {} THEN unit.h = 0
        ELSE /\ unit.h \in visible
             /\ \A k \in visible : unit.xs[unit.h].t <= unit.xs[k].t

\* an unsorted list with an intersection behind the origin, whose hit is at 0
C4_Witness ==
  /\ unit.fn = "hit" /\ unit.pc = "done" /\ unit.h # 0
  /\ unit.xs[unit.h].t = 0
  /\ \E a, b \in 1 .. Len(unit.xs) : a < b /\ unit.xs[a].t > unit.xs[b].t
  /\ \E k \in 1 .. Len(unit.xs) : unit.xs[k].t < 0

\* C5: refracted_color returns black whenever sin2_t > 1, for every such
\* value; only when sin2_t <= 1 does it compute a refracted direction and
\* trace a ray from under_point.
C5_TotalInternalReflection ==
  /\ \A k \in 1 .. Len(stack) :
       stack[k].fn = "refracted_color" /\ stack[k].pc = "traced" =>
         Sin2T(stack[k].comps) <= ONE
  /\ last.fn = "refracted_color" /\ Sin2T(last.comps) > ONE =>
       last.value = BLACK /\ ~last.traced

\* C6: in shade_hit, whenever the hit material has reflective > 0 and
\* transparency > 0 the reflected color is weighted by the Schlick reflectance
\* and the refracted color by one minus it; otherwise both are added unweighted.
C6_SchlickBlend ==
  shade.fn = "shade_hit" =>
    LET m == shade.comps.object.material
        reflectance == schlick(shade.comps)
    IN  IF m.reflective > 0 /\ m.transparency > 0
        THEN shade.added = shade.surface + MulFix(shade.reflected, reflectance)
                             + MulFix(shade.refracted, ONE - reflectance)
        ELSE shade.added = shade.surface + shade.reflected + shade.refracted

\* p lies on the way from a to b: at a or after it, and before b
OnTheWay(a, p, b) == (a <= p /\ p < b) \/ (b < p /\ p <= a)

Opaque(o) == ~(o.material.transparency > 0)

\* C7: is_shadowed(light, point) is true iff a shape whose transparency is not
\* greater than 0 is hit at 0 <= t < distance on the way from point to the
\* light; transparent shapes, shapes beyond the light and shapes behind the
\* point never cause a shadow.
C7_ShadowIff ==
  shade.fn = "shade_hit" =>
    (shade.shadowed <=>
       \E k \in 1 .. Len(world.objects) :
         /\ Opaque(world.objects[k])
         /\ OnTheWay(shade.comps.over_point, world.objects[k].pos,
                     shade.light.position))

\* a lit point with a transparent plane between it and the light and an
\* opaque plane behind it
C7_Witness ==
  /\ shade.fn = "shade_hit" /\ ~shade.shadowed
  /\ \E k \in 1 .. Len(world.objects) :
       /\ ~Opaque(world.objects[k])
       /\ OnTheWay(shade.comps.over_point, world.objects[k].pos,
                   shade.light.position)
  /\ \E k \in 1 .. Len(world.objects) :
       /\ Opaque(world.objects[k])
       /\ ~OnTheWay(shade.comps.over_point, world.objects[k].pos,
                    shade.light.position)

\* C8: when render returns, every cell (x, y) with 0 <= x < hsize and
\* 0 <= y < vsize has been written exactly once, the last row and the last
\* column included.
C8_EveryPixelWritten ==
  rpc = "done" => \A k \in DOMAIN written : written[k] = 1

Coincident ==
  \E a, b \in DOMAIN world.objects :
    /\ a # b /\ world.objects[a].pos = world.objects[b].pos
    /\ world.objects[a].material # world.objects[b].material

\* C11: color_at returns the same color for any permutation of world.objects,
\* also when two shapes are intersected at the same t: the render of the
\* permuted world equals the render of the world, pixel for pixel.
C11_OrderInsignificant ==
  rpc = "done" /\ pass = 2 => image = first

\* C11 without coincident surfaces: when no two planes lie on one another the
\* render of the permuted world equals the render of the world.
C11_DistinctSurfaces ==
  rpc = "done" /\ pass = 2 /\ ~Coincident => image = first

\* the determinant of a matrix of integers by the sum over the permutations
\* of its columns, against which the cofactor expansion of the code is held
Inversions(p) == Cardinality({pair \in (DOMAIN p) \X (DOMAIN p) :
                                pair[1] < pair[2] /\ p[pair[1]] > p[pair[2]]})

RECURSIVE ProductAlong(_, _, _)
ProductAlong(m, p, row) ==
  IF row >= m.n THEN 1 ELSE Index(m, row, p[row]).n * ProductAlong(m, p, row + 1)

RECURSIVE SumOver(_, _)
SumOver(m, perms) ==
  IF perms = {} THEN 0
  ELSE LET p == CHOOSE q \in perms : TRUE
       IN  (IF Inversions(p) % 2 = 0 THEN 1 ELSE -1) * ProductAlong(m, p, 0)
             + SumOver(m, perms \ {p})

Singular(m) == SumOver(m, Permutations(Dim(m))) = 0

\* C12: for every matrix with determinant 0, is_invertible() is false and
\* inverse() panics; no matrix is produced from a division by zero.
C12_SingularFails ==
  unit.fn = "inverse" /\ unit.pc = "done" /\ Singular(unit.xs[1]) =>
    /\ ~unit.result.invertible
    /\ unit.result.inv.panic

\* a matrix of dimension 4 without a zero row whose determinant is 0
C12_Witness ==
  /\ unit.fn = "inverse" /\ unit.pc = "done" /\ unit.xs[1].n = 4
  /\ Singular(unit.xs[1])
  /\ \A row \in Dim(unit.xs[1]) : \E col \in Dim(unit.xs[1]) :
       Index(unit.xs[1], row, col) # Num(0)
  /\ unit.result.inv.panic

\* C13: for every matrix M of dimension 2, 3 or 4 with nonzero determinant,
\* M.inverse() returns a matrix and M * M.inverse() equals the identity.
C13_InverseIsInverse ==
  unit.fn = "inverse" /\ unit.pc = "done" /\ ~Singular(unit.xs[1]) =>
    /\ ~unit.result.inv.panic
    /\ MatrixEq(MatMul(unit.xs[1], unit.result.inv.val), IDENTITY(unit.xs[1].n))

\* C13 for the dimensions 3 and 4 alone
C13_FromThree ==
  /\ unit.fn = "inverse" /\ unit.pc = "done" /\ unit.xs[1].n >= 3
  /\ ~Singular(unit.xs[1])
  => /\ ~unit.result.inv.panic
     /\ MatrixEq(MatMul(unit.xs[1], unit.result.inv.val), IDENTITY(unit.xs[1].n))

\* C14: for all invertible 4x4 matrices A and B, (A * B).inverse() equals
\* B.inverse() * A.inverse(), and (A * B) * B.inverse() equals A.
C14_InverseOfProduct ==
  /\ unit.fn = "product" /\ unit.pc = "done"
  /\ ~Singular(unit.xs[1]) /\ ~Singular(unit.xs[2])
  => /\ ~unit.result.inv_c.panic /\ ~unit.result.reversed.panic
     /\ MatrixEq(unit.result.inv_c.val, unit.result.reversed.val)
     /\ ~unit.result.back.panic
     /\ MatrixEq(unit.result.back.val, unit.xs[1])

\* two invertible matrices that do not commute, with inverses that are not
\* matrices of integers
C14_Witness ==
  /\ unit.fn = "product" /\ unit.pc = "done"
  /\ ~Singular(unit.xs[1]) /\ ~Singular(unit.xs[2])
  /\ ~unit.result.inv_c.panic
  /\ MatMul(unit.xs[1], unit.xs[2]) # MatMul(unit.xs[2], unit.xs[1])
  /\ \E row, col \in 0 .. 3 : Index(unit.result.inv_c.val, row, col).d > 1

\* C * (B * (A * m)) for the matrices built = <<A, B, C>>
RECURSIVE Composed(_, _, _)
Composed(built, k, m) ==
  IF k = 0 THEN m ELSE MatMul(built[k], Composed(built, k - 1, m))

\* A, then B, then C applied to the point p one after the other
RECURSIVE InSequence(_, _, _)
InSequence(built, k, p) ==
  IF k = 0 THEN p ELSE MulPoint(built[k], InSequence(built, k - 1, p))

\* C15: every transformation left-multiplies the matrix it builds onto the
\* receiver: the chain m.a().b().c() equals C * (B * (A * m)), and the chain
\* applied to a point gives the point that A, then B, then C give one after
\* the other.
C15_ChainOrder ==
  unit.fn = "chain" =>
    LET built == unit.result.built
    IN  /\ MatrixEq(unit.result.m, Composed(built, Len(built), unit.xs[1]))
        /\ PointEq(MulPoint(unit.result.m, unit.xs[2]),
                   InSequence(built, Len(built), MulPoint(unit.xs[1], unit.xs[2])))

\* a chain of a rotation, a scaling and a translation on a receiver that is
\* not the identity, whose reversed product is another matrix
C15_Witness ==
  /\ unit.fn = "chain" /\ Len(unit.result.built) = 3
  /\ unit.xs[1] # IDENTITY(4)
  /\ \E r \in Angles : unit.result.built[1] = RotationXMatrix(r)
  /\ \E a \in Scalings : unit.result.built[2] = ScalingMatrix(a[1], a[2], a[3])
  /\ \E a \in Translations : unit.result.built[3] = TranslationMatrix(a[1], a[2], a[3])
  /\ ~MatrixEq(unit.result.m,
               MatMul(unit.xs[1], MatMul(unit.result.built[1],
                                         MatMul(unit.result.built[2], unit.result.built[3]))))

\* C16: point - point is a vector, point + vector and vector + point are
\* points, vector + vector is a vector, and no operation adds a point to a
\* point: no sum of two points is produced as a point or with w = 2.
C16_KindsKept ==
  unit.fn = "tuple" /\ unit.pc = "done" =>
    LET a == unit.xs[1]
        b == unit.xs[2]
        out == unit.result.out
    IN  /\ unit.result.op = "sub" /\ a.kind = "point" /\ b.kind = "point"
             => out.kind = "vector"
        /\ unit.result.op = "add" /\ a.kind # b.kind => out.kind = "point"
        /\ unit.result.op = "add" /\ a.kind = "vector" /\ b.kind = "vector"
             => out.kind = "vector"
        /\ ~(unit.result.op = "add" /\ a.kind = "point" /\ b.kind = "point")

\* C16 for the operations other than the sum of two points
C16_OtherOperations ==
  unit.fn = "tuple" /\ unit.pc = "done" =>
    LET a == unit.xs[1]
        b == unit.xs[2]
        out == unit.result.out
    IN  /\ unit.result.op = "sub" /\ a.kind = "point" /\ b.kind = "point"
             => out.kind = "vector"
        /\ unit.result.op = "add" /\ a.kind # b.kind => out.kind = "point"
        /\ unit.result.op = "add" /\ a.kind = "vector" /\ b.kind = "vector"
             => out.kind = "vector"

\* the color TestPattern gives for a point of pattern space
SameColor(c, point) ==
  ApproxEq(c.red, point.x) /\ ApproxEq(c.green, point.y) /\ ApproxEq(c.blue, point.z)

\* the world point taken into object space and then into pattern space
InPatternSpace(pattern, shape, point) ==
  MulPoint(inverse(pattern.transform).val,
           MulPoint(inverse(shape.transform).val, point))

\* C17: pattern_at_shape(shape, world_point) maps world_point with the
\* inverse of the shape's transform, for every transform, then with the
\* inverse of the pattern's transform, and returns pattern_at of that point.
C17_ObjectThenPatternSpace ==
  unit.fn = "pattern_at_shape" /\ unit.pc = "done" =>
    /\ ~unit.result.panic
    /\ SameColor(unit.result.val, InPatternSpace(unit.xs[1], unit.xs[2], unit.xs[3]))

\* C17 for the shapes whose transform is a scaling or the identity
C17_ScaledShapes ==
  /\ unit.fn = "pattern_at_shape" /\ unit.pc = "done"
  /\ unit.xs[2].transform = transpose(unit.xs[2].transform)
  => /\ ~unit.result.panic
     /\ SameColor(unit.result.val, InPatternSpace(unit.xs[1], unit.xs[2], unit.xs[3]))

\* no intersection of xs comes before one of a smaller t
Ascending(xs) ==
  \A i, j \in DOMAIN xs :
    i < j /\ ~xs[i].nan /\ ~xs[j].nan => xs[i].t <= xs[j].t

\* the roots of the shape on the ray taken into its object space
Roots(shape, r) ==
  IF IsCylinder(shape)
  THEN CylinderLocalIntersect(shape, LocalRay(r, shape))
  ELSE [k \in DOMAIN PlaneLocalIntersect(shape, r) |->
          PlaneLocalIntersect(shape, r)[k].t]

\* the number of roots of the objects before the k-th
RECURSIVE RootsBefore(_, _, _)
RootsBefore(objects, r, k) ==
  IF k = 1 THEN 0
  ELSE RootsBefore(objects, r, k - 1) + Len(Roots(objects[k - 1], r))

\* C18: Ray::intersect(shape) returns one Intersection per root of the
\* shape's local_intersect on the ray taken into the shape's object space,
\* each on that shape, in ascending order of t; World::intersect returns the
\* intersections of all the objects, none lost and none twice, in ascending
\* order of t.
C18_IntersectionsComplete ==
  LET objects == unit.xs[1]
      r == unit.xs[2]
      xs == unit.result
  IN /\ unit.fn = "intersect" /\ unit.pc = "ray" =>
          LET shape == objects[unit.h]
              ts == Roots(shape, r)
          IN /\ Len(xs) = Len(ts)
             /\ \A k \in DOMAIN xs : xs[k].object = shape
             /\ r.nan \/ \A k \in DOMAIN ts :
                  Cardinality({j \in DOMAIN xs : xs[j].t = ts[k]})
                    = Cardinality({j \in DOMAIN ts : ts[j] = ts[k]})
             /\ Ascending(xs)
     /\ unit.fn = "intersect" /\ unit.pc = "world" =>
          /\ Len(xs) = RootsBefore(objects, r, Len(objects) + 1)
          /\ \A k \in DOMAIN objects :
               LET ts == Roots(objects[k], r)
               IN /\ Cardinality({j \in DOMAIN xs : xs[j].object = objects[k]})
                       = Len(ts)
                  /\ r.nan \/ \A i \in DOMAIN ts :
                       Cardinality({j \in DOMAIN xs :
                                      xs[j].object = objects[k] /\ xs[j].t = ts[i]})
                         = Cardinality({j \in DOMAIN ts : ts[j] = ts[i]})
          /\ Ascending(xs)

\* a world of a closed cylinder and a plane inside it, met from above: the
\* caps come out of local_intersect upper one last, and the plane lies
\* between them
C18_Witness ==
  /\ unit.fn = "intersect" /\ unit.pc = "world"
  /\ Len(unit.xs[1]) >= 2
  /\ IsCylinder(unit.xs[1][1]) /\ ~IsCylinder(unit.xs[1][2])
  /\ unit.xs[2].direction < 0
  /\ Len(unit.result) = 3
  /\ unit.result[1].object = unit.xs[1][1]
  /\ unit.result[2].object = unit.xs[1][2]
  /\ unit.result[3].object = unit.xs[1][1]
  /\ unit.result[1].t < unit.result[2].t /\ unit.result[2].t < unit.result[3].t
\* the decimal numerals of 0 .. 255
Bytes == {ToString(k) : k \in 0 .. 255}

\* clamp(floor(255 * c), 0, 255) for a channel that has a value
ByteOf(c) ==
  IF Finite(c)
  THEN LET v == (255 * c.n) \div c.d
       IN  IF v < 0 THEN 0 ELSE IF v > 255 THEN 255 ELSE v
  ELSE IF c.n > 0 THEN 255 ELSE 0

\* where the text of pixel i begins in the file, the header taking seven
\* places, a pixel six and each line break one
PixelStart(cv, i) == 7 + (6 * i) + (i \div cv.width) + 1

\* the file out has the layout and the values of the claim for canvas cv
PpmAsClaimed(cv, out) ==
  LET n == cv.width * cv.height
  IN /\ Len(out) >= 7
     /\ SubSeq(out, 1, 7)
          = <<"P3", "\n", ToString(cv.width), " ", ToString(cv.height), "\n", "255">>
     /\ Len(out) = IF n = 0 THEN 7 ELSE PixelStart(cv, n - 1) + 6
     /\ \A i \in 0 .. (n - 1) :
          LET at == PixelStart(cv, i)
              c == cv.pixels[i]
          IN /\ out[at] = (IF i % cv.width = 0 THEN "\n" ELSE " ")
             /\ out[at + 2] = " " /\ out[at + 4] = " " /\ out[at + 6] = " "
             /\ \A ch \in {<<1, c.red>>, <<3, c.green>>, <<5, c.blue>>} :
                  /\ out[at + ch[1]] \in Bytes
                  /\ ch[2] # NaN => out[at + ch[1]] = ToString(ByteOf(ch[2]))

HasNaN(cv) ==
  \E k \in DOMAIN cv.pixels :
    NaN \in {cv.pixels[k].red, cv.pixels[k].green, cv.pixels[k].blue}

\* C19: to_ppm writes the header P3, width and height, 255, then the pixels
\* row by row with a line break exactly before each pixel whose index is a
\* multiple of the width, and every channel written is the integer
\* clamp(floor(255 * c), 0, 255), never fractional, negative or above 255.
C19_PpmIntegers ==
  unit.fn = "canvas" /\ unit.pc = "ppm" => PpmAsClaimed(unit.xs[1], unit.result)

\* the same for canvases none of whose channels is NaN
C19_WithoutNaN ==
  unit.fn = "canvas" /\ unit.pc = "ppm" /\ ~HasNaN(unit.xs[1])
    => PpmAsClaimed(unit.xs[1], unit.result)

\* a file of a canvas of two rows with channels below 0, above 1 and between
C19_Clamped ==
  /\ unit.fn = "canvas" /\ unit.pc = "ppm" /\ ~HasNaN(unit.xs[1])
  /\ unit.xs[1].width = 2 /\ unit.xs[1].height = 2
  /\ unit.xs[1].pixels[2] = Rgb(RatNeg(Half), Rat(3, 2), Rat(999, 1000))
  /\ SubSeq(unit.result, 21, 27) = <<"\n", "0", " ", "255", " ", "254", " ">>
\* the coordinates inside a canvas
Coordinates(cv) == (0 .. (cv.width - 1)) \X (0 .. (cv.height - 1))

\* a color no canvas holds
Marker == Rgb(Num(7), Num(7), Num(7))

\* C20: on a canvas of width w and height h, after write(x, y, c) with x < w
\* and y < h, pixel_at(x, y) returns c and every other cell is as before;
\* two different coordinates inside the canvas never address the same cell;
\* a new canvas holds the default color in all its w * h cells.
C20_CellsDisjoint ==
  LET cv == unit.xs[1]
  IN /\ unit.fn = "canvas" /\ unit.pc = "written" =>
          LET b == unit.h.before
          IN /\ pixel_at(cv, unit.h.x, unit.h.y) = unit.h.color
             /\ \A p \in Coordinates(cv) :
                  p # <<unit.h.x, unit.h.y>>
                    => pixel_at(cv, p[1], p[2]) = pixel_at(b, p[1], p[2])
             /\ cv.width = b.width /\ cv.height = b.height
             /\ DOMAIN cv.pixels = DOMAIN b.pixels
             /\ Cardinality({k \in DOMAIN cv.pixels : cv.pixels[k] # b.pixels[k]}) <= 1
     /\ unit.fn = "canvas" =>
          \A p, q \in Coordinates(cv) :
            p # q => pixel_at(CanvasWrite(cv, p[1], p[2], Marker), q[1], q[2]) # Marker
     /\ unit.fn = "canvas" /\ unit.pc = "new" =>
          /\ Cardinality(DOMAIN cv.pixels) = cv.width * cv.height
          /\ \A k \in DOMAIN cv.pixels : cv.pixels[k] = ColorDefault
          /\ \A p \in Coordinates(cv) : pixel_at(cv, p[1], p[2]) = ColorDefault

\* a canvas of more than one row and column after two writes to different
\* cells of it, the second one off the first column: both colors are read
\* back and the rest is still the default
C20_Witness ==
  /\ unit.fn = "canvas" /\ unit.pc = "written" /\ unit.xs[2] = 2
  /\ unit.xs[1].width >= 2 /\ unit.xs[1].height >= 2
  /\ unit.h.x >= 1 /\ unit.h.y >= 1
  /\ pixel_at(unit.xs[1], unit.h.x, unit.h.y) = unit.h.color
  /\ pixel_at(unit.xs[1], 0, 1) \notin {ColorDefault, unit.h.color}
  /\ Cardinality({k \in DOMAIN unit.xs[1].pixels :
                    unit.xs[1].pixels[k] # ColorDefault}) = 2

\* base color x light intensity x material.ambient
AmbientTerm(material, light) ==
  MulFix(MulFix(material.color, light.intensity), material.ambient)

\* base color x light intensity x material.diffuse, the light being on the
\* axis of the normal
DiffuseTerm(material, light) ==
  MulFix(MulFix(material.color, light.intensity), material.diffuse)

\* the light is on the side the normal points away from
LightBehind(light, point, normalv) == (light.position > point) # (normalv > 0)

\* the eye is on the side of the surface the light is reflected away from
EyeOffReflection(light, point, eyev) ==
  eyev = 0 \/ (light.position > point) # (eyev > 0)

\* C21: lighting returns the ambient term alone when in_shadow is set or the
\* light is behind the surface, adds no specular term when the reflection
\* does not point to the eye, and never clamps its result: with the eye on
\* the reflection it is ambient + diffuse + intensity x specular, above 1 or
\* not.
C21_LightingTerms ==
  unit.fn = "lighting" /\ unit.pc = "done" =>
    LET material == unit.xs[1]
        light == unit.xs[2]
        point == unit.xs[3]
        eyev == unit.xs[4]
        normalv == unit.xs[5]
        in_shadow == unit.xs[6]
        ambient == AmbientTerm(material, light)
        diffuse == DiffuseTerm(material, light)
    IN /\ in_shadow \/ LightBehind(light, point, normalv) => unit.result = ambient
       /\ ~in_shadow /\ ~LightBehind(light, point, normalv)
            /\ EyeOffReflection(light, point, eyev) => unit.result = ambient + diffuse
       /\ ~in_shadow /\ ~LightBehind(light, point, normalv) /\ Abs(eyev) = ONE
            /\ ~EyeOffReflection(light, point, eyev)
            => unit.result = ambient + diffuse + MulFix(light.intensity, material.specular)

\* a lit surface seen along the reflection, brighter than white; and the
\* same call is among those made in shadow
C21_Witness ==
  /\ unit.fn = "lighting" /\ unit.pc = "done"
  /\ ~unit.xs[6] /\ ~LightBehind(unit.xs[2], unit.xs[3], unit.xs[5])
  /\ unit.xs[4] = unit.xs[5]
  /\ unit.result > ONE

\* the largest integer not above the fraction a
FloorOf(a) == CHOOSE k \in -4 .. 4 : k * a.d <= a.n /\ a.n < (k + 1) * a.d

Even(k) == \E j \in -8 .. 8 : k = 2 * j

\* C22: with the identity transform, Checkerboard::pattern_at(p) is color A
\* iff floor(p.x) + floor(p.y) + floor(p.z) is even and color B otherwise,
\* and Stripe::pattern_at(p) is A iff floor(p.x) is even, for negative
\* coordinates as for positive ones.
C22_Parity ==
  LET pattern == unit.xs[1]
      p == unit.xs[2]
  IN /\ unit.fn = "pattern_at" /\ unit.pc = "checkerboard" =>
          unit.result = Ok(IF Even(FloorOf(p.x) + FloorOf(p.y) + FloorOf(p.z))
                           THEN pattern.a ELSE pattern.b)
     /\ unit.fn = "pattern_at" /\ unit.pc = "stripe" =>
          unit.result = Ok(IF Even(FloorOf(p.x)) THEN pattern.a ELSE pattern.b)

\* a point whose floors are -2, 0 and -1: an odd negative sum
C22_Witness ==
  /\ unit.fn = "pattern_at" /\ unit.pc = "checkerboard"
  /\ unit.xs[2] = Point(Rat(-3, 2), Rat(99, 100), Rat(-1, 10))
  /\ unit.result = Ok(unit.xs[1].b)

\* C23: prepare_computations sets inside and negates the normal exactly when
\* the shape's normal has a negative dot product with the eye vector; the
\* normal returned never points away from the eye, over_point lies off the
\* surface on the eye's side and under_point on the other side.
C23_NormalFacesEye ==
  unit.fn = "sides" /\ unit.pc = "done" =>
    LET comps == unit.result
        r == unit.h
        towardsEye == IF r.direction < 0 THEN 1 ELSE -1
    IN /\ comps.eyev = -r.direction
       /\ comps.inside <=> (towardsEye < 0)
       /\ comps.normalv = towardsEye * ONE
       /\ MulFix(comps.normalv, comps.eyev) >= 0
       /\ (comps.over_point - comps.point) * towardsEye > 0
       /\ (comps.under_point - comps.point) * towardsEye < 0
       /\ comps.over_point - comps.point = comps.point - comps.under_point

\* a plane met from below, ahead of the ray: the normal is turned downwards
C23_Witness ==
  /\ unit.fn = "sides" /\ unit.pc = "done"
  /\ unit.h.direction > 0 /\ unit.result.t > 0
  /\ unit.result.inside
  /\ unit.result.normalv = -ONE
  /\ unit.result.over_point < unit.result.point

\* a is a number and no other number of the set is above it; a parameter
\* that is not a number (0 x infinity, on a face the ray runs along) counts
\* for nothing
Largest(a, set) == a \in set /\ a # NaN /\ \A b \in set : ~RatLt(a, b)
Smallest(a, set) == a \in set /\ a # NaN /\ \A b \in set : ~RatLt(b, a)

\* C24: Cube::local_intersect returns nothing or exactly two values
\* tmin <= tmax, tmin the largest of the three entry parameters of check_axis
\* and tmax the smallest of the three exit parameters; it returns nothing
\* exactly when that tmin is above that tmax; check_axis never returns a pair
\* in descending order, whatever the sign of the direction component.
C24_Interval ==
  unit.fn = "cube" /\ unit.pc = "done" =>
    LET r == unit.xs
        x == check_axis(r.origin.x, r.direction.x)
        y == check_axis(r.origin.y, r.direction.y)
        z == check_axis(r.origin.z, r.direction.z)
        entries == {x[1], y[1], z[1]}
        exits == {x[2], y[2], z[2]}
        apart == \E a \in entries, b \in exits : a # NaN /\ b # NaN /\ RatLt(b, a)
    IN /\ \A pair \in {x, y, z} : ~RatLt(pair[2], pair[1])
       /\ Len(unit.result) \in {0, 2}
       /\ Len(unit.result) = 0 <=> apart
       /\ Len(unit.result) = 2 =>
            /\ Largest(unit.result[1], entries)
            /\ Smallest(unit.result[2], exits)
            /\ RatLt(unit.result[1], unit.result[2]) \/ unit.result[1] = unit.result[2]

\* a ray that runs against the x axis from (2, 0.5, z), nearly flat in z,
\* and meets the cube at 1 and 3
C24_Witness ==
  /\ unit.fn = "cube" /\ unit.pc = "done"
  /\ unit.xs.origin.x = Num(2) /\ unit.xs.direction.x = Num(-1)
  /\ unit.xs.origin.y = Rat(1, 2) /\ unit.xs.direction.y = Num(0)
  /\ unit.xs.direction.z = Rat(1, ONE)
  /\ unit.result = <<Num(1), Num(3)>>

\* a ray that passes beside the cube
C24_Missed ==
  /\ unit.fn = "cube" /\ unit.pc = "done"
  /\ unit.xs.origin = Point(Num(2), Num(0), Num(2))
  /\ unit.xs.direction = Vector(Num(0), Num(0), Num(-1))
  /\ unit.result = <<>>

\* every t of ts is a point of the ray inside the height of the shape, and
\* strictly inside when the shape has no caps
WithinHeight(shape, r, ts) ==
  \A k \in DOMAIN ts :
    LET y == YAt(r, ts[k])
    IN /\ ~RatLt(y, shape.minimum) /\ ~RatLt(shape.maximum, y)
       /\ ~shape.closed => RatLt(shape.minimum, y) /\ RatLt(y, shape.maximum)

\* C25: for a cylinder or cone truncated by finite minimum < maximum, every
\* t returned by local_intersect is a point of the ray whose y lies in
\* [minimum, maximum], strictly inside unless the shape is closed, on every
\* branch, the cone's linear case (quadratic coefficient 0) included.
C25_WithinTruncation ==
  unit.fn = "truncated" /\ unit.pc = "done"
    => WithinHeight(unit.xs[1], unit.xs[2], unit.result)

\* the same for cylinders, and for cones off the linear case
C25_QuadraticBranches ==
  unit.fn = "truncated" /\ unit.pc = "done"
    /\ (unit.xs[1].cone => QuadA(unit.xs[1], unit.xs[2]) # Num(0))
    => WithinHeight(unit.xs[1], unit.xs[2], unit.result)

\* a closed cylinder met on a wall and on a cap
C25_WallAndCap ==
  /\ unit.fn = "truncated" /\ unit.pc = "done"
  /\ ~unit.xs[1].cone /\ unit.xs[1].closed
  /\ Len(unit.result) = 2
  /\ YAt(unit.xs[2], unit.result[2]) = unit.xs[1].maximum
  /\ RatLt(YAt(unit.xs[2], unit.result[1]), unit.xs[1].maximum)

\* the last call returned and is read back by the getters
ReadBack ==
  /\ unit.pc # "panicked"
  /\ unit.h.op = "set_transform" => get_transform(unit.xs) = unit.h.arg
  /\ unit.h.op = "set_material" => get_material(unit.xs) = unit.h.arg
  /\ unit.h.op = "get_mut_material" => get_material(unit.xs).ambient = unit.h.arg

\* C26: on every shape variant set_transform(t) is read back by
\* get_transform(), set_material(m) by get_material(), get_mut_material()
\* gives access to the material, and none of these calls fails.
C26_MutatorsSucceed == unit.fn = "shape" => ReadBack

\* the same for the variants that implement the mutators
C26_Implemented ==
  unit.fn = "shape" /\ unit.xs.kind \notin Unimplemented => ReadBack

\* a plane moved and given another material
C26_PlaneSetUp ==
  /\ unit.fn = "shape" /\ unit.xs.kind = "Plane"
  /\ unit.h.op = "set_material" /\ unit.xs.material = Glass
  /\ unit.xs.transform # IDENTITY(4)

\* what one light adds: its direct lighting, the reflected and the refracted
\* color, the two weighted by the reflectance when the material has both
LightShare(comps, surface, reflected, refracted) ==
  LET m == comps.object.material
  IN  IF m.reflective >= EPSILON /\ m.transparency >= EPSILON
      THEN surface + MulFix(reflected, schlick(comps))
                   + MulFix(refracted, ONE - schlick(comps))
      ELSE surface + reflected + refracted

\* one step of shade_hit, seen from outside
ShadeHitStep ==
  /\ stack' # <<>> /\ Len(stack') = Len(stack) + 1 /\ stack'[Len(stack')].fn = "shade_hit"
       => stack'[Len(stack')].res = BLACK /\ stack'[Len(stack')].li = 1
  /\ stack # <<>> /\ Top.fn = "shade_hit" /\ Top.pc = "light" /\ Len(stack') > Len(stack)
       => /\ Top.li <= Len(world.lights)
          /\ stack'[Len(stack')].fn = "reflected_color"
          /\ stack'[Len(stack')].remaining = Top.remaining
  /\ stack # <<>> /\ Top.fn = "shade_hit" /\ Top.pc = "reflected" /\ Len(stack') > Len(stack)
       => /\ stack'[Len(stack')].fn = "refracted_color"
          /\ stack'[Len(stack) ].reflected = ret
  /\ stack # <<>> /\ Top.fn = "shade_hit" /\ Top.pc = "refracted"
       => /\ Len(stack') = Len(stack)
          /\ stack'[Len(stack)].li = Top.li + 1
          /\ stack'[Len(stack)].res
               = Top.res + LightShare(Top.comps, Top.surface, Top.reflected, ret)
  /\ stack # <<>> /\ Top.fn = "shade_hit" /\ Len(stack') < Len(stack)
       => /\ Top.li = Len(world.lights) + 1
          /\ ret' = Top.res
          /\ Len(world.lights) = 0 => ret' = BLACK

\* C27: shade_hit starts from black and adds, for each light of the world in
\* turn, the direct lighting of that light plus the reflected and the
\* refracted contribution, both computed anew for each light; it returns the
\* sum after the last light, so black in a world without lights.
C27_SumOverLights == [][ShadeHitStep]_vars

\* shade_hit about to return in a world of two lights, on a reflective
\* surface that is not transparent: the reflection was added for each light
C27_Witness ==
  /\ stack # <<>> /\ Top.fn = "shade_hit" /\ Top.pc = "light"
  /\ Len(world.lights) = 2 /\ Top.li = 3
  /\ shade.comps = Top.comps /\ shade.reflected > 0
  /\ Top.comps.object.material.transparency = 0
  /\ Top.res >= 2 * shade.reflected
  /\ Top.res > shade.added

\* shade_hit about to return black from a mirror in a world without lights
C27_NoLights ==
  /\ stack # <<>> /\ Top.fn = "shade_hit" /\ Top.pc = "light"
  /\ Len(world.lights) = 0
  /\ Top.comps.object.material.reflective > 0
  /\ Top.res = BLACK

\* the shape instances the walk has met an odd number of times among the
\* first k intersections
Entered(xs, k) ==
  {key \in {xs[j].object.key : j \in 1 .. k} :
     Cardinality({j \in 1 .. k : xs[j].object.key = key}) % 2 = 1}

\* the instance entered last among those still entered after k intersections
Innermost(xs, k) ==
  LET open == {j \in 1 .. k : /\ xs[j].object.key \in Entered(xs, k)
                              /\ \A i \in (j + 1) .. k :
                                   xs[i].object.key # xs[j].object.key}
  IN  IF Entered(xs, k) = {} THEN 0
      ELSE CHOOSE j \in open : \A i \in open : i <= j

IndexAfter(xs, k) ==
  IF Innermost(xs, k) = 0 THEN ONE
  ELSE xs[Innermost(xs, k)].object.material.refractive_index

\* C28: the containment list of prepare_computations is keyed by the shape
\* instance: an intersection toggles the entry of its own shape only, so n1
\* and n2 are the indices of the instances really entered, also when two
\* shapes of the world were built with the same id.
C28_KeyedByInstance ==
  unit.fn = "prepare_computations" /\ unit.pc = "done"
    /\ (\A i, j \in DOMAIN unit.xs : unit.xs[i].object.id = unit.xs[j].object.id)
    => /\ unit.result.n1 = IndexAfter(unit.xs, unit.h - 1)
       /\ unit.result.n2 = IndexAfter(unit.xs, unit.h)

\* the same when a single instance is met
C28_OneInstance ==
  unit.fn = "prepare_computations" /\ unit.pc = "done"
    /\ (\A i, j \in DOMAIN unit.xs : unit.xs[i].object.key = unit.xs[j].object.key)
    => /\ unit.result.n1 = IndexAfter(unit.xs, unit.h - 1)
       /\ unit.result.n2 = IndexAfter(unit.xs, unit.h)

\* C29: the u32 counter remaining never underflows: remaining - 1 is
\* evaluated only by a reflected_color or refracted_color that holds
\* remaining >= 1, so no activation holds the wrapped value and no callee
\* holds a larger remaining than its caller.
C29_NoUnderflow ==
  /\ \A k \in 1 .. Len(stack) : stack[k].remaining \in 0 .. depth
  /\ \A k \in 1 .. (Len(stack) - 1) :
       /\ stack[k + 1].remaining <= stack[k].remaining
       /\ stack[k + 1].remaining < stack[k].remaining =>
            stack[k].fn \in Callers /\ stack[k].remaining >= 1
  /\ last.fn \in Callers /\ last.traced => last.remaining >= 1

\* a reflected_color or refracted_color about to test remaining = 0, reached
\* through a subtraction made by a caller that held 1
C29_Witness ==
  /\ Len(stack) >= 2 /\ Top.fn \in Callers /\ Top.pc = "start" /\ Top.remaining = 0
  /\ Top.comps.object.material.reflective > 0
  /\ \E k \in 1 .. (Len(stack) - 1) :
       /\ stack[k].fn \in Callers /\ stack[k].pc = "traced" /\ stack[k].remaining = 1
       /\ stack[k + 1].fn = "color_at" /\ stack[k + 1].remaining = 0

\* the call of write that was made last lay outside the canvas it was made on
OutOfRange ==
  /\ unit.fn = "write" /\ unit.pc \in {"written", "panicked"}
  /\ unit.h.x >= unit.h.before.width \/ unit.h.y >= unit.h.before.height

\* C30: Canvas::write(x, y, c) with x >= width or y >= height never changes
\* any pixel of the canvas: the call fails instead of storing the color in
\* the cell of another coordinate.
C30_OutOfRangeRejected ==
  OutOfRange => unit.result.panic /\ unit.xs[1] = unit.h.before

\* what the code does with such a call: it fails when width * y + x is not
\* below width * height, and otherwise stores the color in the one cell of
\* the coordinate ((width * y + x) % width, (width * y + x) \div width)
C30_WrapsIntoStore ==
  OutOfRange =>
    LET b == unit.h.before
        k == (b.width * unit.h.y) + unit.h.x
    IN  IF k >= b.width * b.height
        THEN unit.result.panic /\ unit.xs[1] = b
        ELSE /\ ~unit.result.panic
             /\ unit.h.x >= b.width /\ unit.h.y < b.height - 1
             /\ unit.xs[1] = CanvasWrite(b, k % b.width, k \div b.width, unit.h.color)

\* write(2, 0, c) on a new canvas of 2 by 2 changed the cell of (0, 1)
C30_OtherCell ==
  /\ OutOfRange /\ ~unit.result.panic
  /\ unit.h.before = CanvasNewRgb(2, 2) /\ unit.h.x = 2 /\ unit.h.y = 0
  /\ pixel_at(unit.xs[1], 0, 1) = unit.h.color
  /\ unit.h.color # ColorDefault
====
